---- MODULE Spec2Model ----
(***************************************************************************)
(* Model of esmond's Cassandra interface (src/esmond/cassandra.py): the    *)
(* row-key codec, the four batched column families, the metadata cache,    *)
(* the aggregation cache and the query methods.                            *)
(*                                                                         *)
(* Strings are sequences of one-character strings.  Timestamps are         *)
(* integer milliseconds.  None is modelled by 0 where the code only tests  *)
(* truthiness (freq, year) and by the empty function/sequence elsewhere.   *)
(***************************************************************************)
EXTENDS Integers, Sequences, FiniteSets, TLC

VARIABLES
    cf_raw,             \* stored contents of column family raw_data
    cf_rate,            \* stored contents of column family base_rates
    cf_agg,             \* stored contents of column family rate_aggregations
    cf_stat,            \* stored contents of column family stat_aggregations
    raw_data,           \* self.raw_data: the batch queue of raw_data
    rates,              \* self.rates: the batch queue of base_rates
    aggs,               \* self.aggs: the batch queue of rate_aggregations
    stat_agg,           \* self.stat_agg: the batch queue of stat_aggregations
    metadata_cache,     \* self.metadata_cache
    aggregation_cache,  \* self.aggregation_cache
    codec,              \* row-key codec harness: input, key and split
    loader,             \* util/load_grid_ftp.py: the GridFTP log, the state
                        \* (pickle) file and the last run of the loader
    last,               \* the last call made and what it returned
    hist                \* history of the calls made (for stating the claims),
                        \* and the position, samples and loaded metadata of
                        \* each worker thread

vars == <<cf_raw, cf_rate, cf_agg, cf_stat, raw_data, rates, aggs, stat_agg,
          metadata_cache, aggregation_cache, codec, loader, last, hist>>

-----------------------------------------------------------------------------
(* Bounds of the model *)

\* Seconds per calendar year of the model's calendar (the real one has
\* 31536000 or 31622400); years start on whole seconds, as in UTC.
SecPerYear == 4
\* Greatest sample timestamp, in steps of TsStep milliseconds.
MaxTsSteps == 2
\* Number of writing calls a behaviour makes before it stops.
MaxCalls == 2
\* Greatest raw counter value.
MaxVal == 1
\* Queue size of a batch; stands for CASSANDRA_DB._queue_size = 200.
queue_size == 2
\* Greatest column_count passed to a query.
MaxLimit == 1
\* Greatest length of a path step given to the codec.
MaxStepLen == 2
\* The look-back of get_metadata in ms; stands for SEEK_BACK_THRESHOLD =
\* 2592000000 (30 days), which is beyond TLC's integers.  As in the code it
\* is longer than 40 periods of the series.
SEEK_BACK_THRESHOLD == 45000
\* Number of update_stat_aggregation calls a behaviour makes.
MaxStatCalls == 3

(* Program constants *)

\* ts_to_jstime: calendar.timegm(...) * 1000
MsPerSec == 1000
\* datetime.utcfromtimestamp(0).year
EpochYear == 1970

KEY_DELIMITER == ":"
ESCAPE == "\\"

-----------------------------------------------------------------------------
(* Strings *)

Digits == <<"0", "1", "2", "3", "4", "5", "6", "7", "8", "9">>

RECURSIVE NatStr(_)
NatStr(n) == IF n < 10 THEN <<Digits[n + 1]>>
             ELSE NatStr(n \div 10) \o <<Digits[(n % 10) + 1]>>

\* str(n) of a Python int
str(n) == IF n < 0 THEN <<"-">> \o NatStr(-n) ELSE NatStr(n)

RECURSIVE Replace(_, _, _)
\* s.replace(c, r) for a one-character c and a string r
Replace(s, c, r) ==
    IF s = <<>> THEN <<>>
    ELSE (IF Head(s) = c THEN r ELSE <<Head(s)>>) \o Replace(Tail(s), c, r)

RECURSIVE Join(_, _)
\* d.join(parts)
Join(d, parts) ==
    IF parts = <<>> THEN <<>>
    ELSE IF Len(parts) = 1 THEN parts[1]
    ELSE parts[1] \o <<d>> \o Join(d, Tail(parts))

-----------------------------------------------------------------------------
(* Path codec *)

escape_path(path) ==
    [i \in 1..Len(path) |-> Replace(path[i], KEY_DELIMITER, <<ESCAPE, KEY_DELIMITER>>)]

get_rowkey(path, freq, year) ==
    LET a1 == IF freq # 0 THEN <<str(freq)>> ELSE <<>>
        a2 == IF year # 0 THEN <<str(year)>> ELSE <<>>
    IN  Join(KEY_DELIMITER, escape_path(path) \o a1 \o a2)

\* the positions (1-based) at which _split_rowkey splits s
SplitIndices(s) ==
    {i \in 1..Len(s) : /\ s[i] = KEY_DELIMITER
                       /\ \/ (i > 1 /\ s[i - 1] # ESCAPE)
                          \/ i = 1}

RECURSIVE SplitFrom(_, _, _)
SplitFrom(s, lastpos, idx) ==
    IF idx = {} THEN <<SubSeq(s, lastpos, Len(s))>>
    ELSE LET i == CHOOSE j \in idx : \A k \in idx : j <= k
         IN  <<Replace(SubSeq(s, lastpos, i - 1), ESCAPE, <<>>)>>
             \o SplitFrom(s, i + 1, idx \ {i})

split_rowkey(s) == SplitFrom(s, 1, SplitIndices(s))

-----------------------------------------------------------------------------
(* Sets of inputs *)

\* the sample timestamps a behaviour draws from: every half second, from
\* one second before the first year boundary of the model's calendar
TsSet == {(SecPerYear - 1) * MsPerSec + i * 500 : i \in 0..MaxTsSteps}
Vals == 0..MaxVal
\* a path without and a path with the key delimiter in a step
PathA == << <<"a">> >>
PathB == << <<"a", ":", "b">> >>
Paths == {PathA, PathB}
\* the native frequency of the series and the rollup frequency, in ms
BaseFreqs == {1000}
AggFreqs == {2000}

\* the years of the model's calendar that hold a timestamp drawn, and the
\* year before
Years == (EpochYear - 1)..(EpochYear + 2 + (MaxTsSteps \div SecPerYear))

\* optional arguments: None is <<>>, a given x is <<x>>
None == <<>>
Some(x) == <<x>>

-----------------------------------------------------------------------------
(* JSON of the raw values (integers) *)

json_dumps(v) == str(v)

DigitVal(c) == CHOOSE d \in 0..9 : Digits[d + 1] = c

RECURSIVE ParseNat(_, _)
ParseNat(s, acc) ==
    IF s = <<>> THEN acc ELSE ParseNat(Tail(s), acc * 10 + DigitVal(Head(s)))

json_loads(s) == IF Head(s) = "-" THEN 0 - ParseNat(Tail(s), 0) ELSE ParseNat(s, 0)

-----------------------------------------------------------------------------
(* Data containers: a RawRateData is [path, freq, ts, val], ts in ms *)

\* DataContainerBase._handle_date(d).year, on the model's calendar
YearOf(d) == EpochYear + ((d \div MsPerSec) \div SecPerYear)

\* DataContainerBase.ts_to_jstime: the sub-second part is dropped by
\* utctimetuple()
ts_to_jstime(ts) == (ts \div MsPerSec) * MsPerSec

\* get_key taking the year on a clock one second ahead of UTC
get_key_local_time(d) ==
    get_rowkey(d.path, d.freq, YearOf(d.ts + MsPerSec))

\* RawRateData.get_key
get_key(d) ==
    get_rowkey(d.path, d.freq, YearOf(d.ts))

\* RawRateData.get_meta_key
get_meta_key(d) == get_rowkey(d.path, d.freq, 0)

\* RawRateData.slot
slot(d) == (ts_to_jstime(d.ts) \div d.freq) * d.freq

-----------------------------------------------------------------------------
(* The store: a column family is a function from <<row key, column>> to    *)
(* the column's value; a batch is a sequence of mutations                  *)
(* [key, col, val] that send() applies in order.                           *)

Put(cf, k, c, v) ==
    [x \in (DOMAIN cf) \cup {<<k, c>>} |-> IF x = <<k, c>> THEN v ELSE cf[x]]

\* a plain column family (raw_data): the value replaces the column
ApplyPlain(cf, m) == Put(cf, m.key, m.col, m.val)

\* a super column family where an insert replaces the sub-columns stored
ApplySuper_replace(cf, m) == Put(cf, m.key, m.col, m.val)

\* a super column family of longs (stat_aggregations): the sub-columns
\* written replace those stored, the others stay
ApplySuper(cf, m) ==
    Put(cf, m.key, m.col,
        IF <<m.key, m.col>> \in DOMAIN cf THEN m.val @@ cf[<<m.key, m.col>>]
        ELSE m.val)

\* a column family whose counters are set, not incremented
ApplyCounter_set(cf, m) == Put(cf, m.key, m.col, m.val)

\* a super column family of counters (base_rates, rate_aggregations): the
\* sub-columns written are added to those stored
ApplyCounter(cf, m) ==
    LET old == IF <<m.key, m.col>> \in DOMAIN cf THEN cf[<<m.key, m.col>>]
               ELSE [x \in {} |-> 0]
        names == (DOMAIN old) \cup (DOMAIN m.val)
        get(f, n) == IF n \in DOMAIN f THEN f[n] ELSE 0
    IN  Put(cf, m.key, m.col, [n \in names |-> get(old, n) + get(m.val, n)])

RECURSIVE SendPlain(_, _)
SendPlain(cf, q) ==
    IF q = <<>> THEN cf ELSE SendPlain(ApplyPlain(cf, Head(q)), Tail(q))

RECURSIVE SendSuper(_, _)
SendSuper(cf, q) ==
    IF q = <<>> THEN cf ELSE SendSuper(ApplySuper(cf, Head(q)), Tail(q))

RECURSIVE SendCounter(_, _)
SendCounter(cf, q) ==
    IF q = <<>> THEN cf ELSE SendCounter(ApplyCounter(cf, Head(q)), Tail(q))

\* a batch that never sends by itself
Enqueue_unbounded(q, m) == [q |-> Append(q, m), sent |-> <<>>]

\* batch.insert(): queue the mutation, and send the batch when the queue
\* has reached queue_size.  Gives <<queue, whether the batch is sent>>.
Enqueue(q, m) ==
    LET q2 == Append(q, m)
    IN  IF Len(q2) >= queue_size THEN [q |-> <<>>, sent |-> q2]
        ELSE [q |-> q2, sent |-> <<>>]

-----------------------------------------------------------------------------
(* Reading the store *)

RECURSIVE SortAsc(_)
SortAsc(S) ==
    IF S = {} THEN <<>>
    ELSE LET m == CHOOSE x \in S : \A y \in S : x <= y
         IN  <<m>> \o SortAsc(S \ {m})

Reverse(s) == [i \in 1..Len(s) |-> s[Len(s) + 1 - i]]

FirstN(s, n) == IF Len(s) <= n THEN s ELSE SubSeq(s, 1, n)

\* the columns of one row in the slice [lo, hi], in comparator order
RowCols(cf, k, lo, hi) ==
    SortAsc({x[2] : x \in {y \in DOMAIN cf : y[1] = k /\ y[2] >= lo /\ y[2] <= hi}})

\* ColumnFamily.multiget_count(keys, column_start, column_finish): the sum
\* over the rows of the number of columns in the slice
RECURSIVE multiget_count(_, _, _, _)
multiget_count(cf, keys, lo, hi) ==
    IF keys = <<>> THEN 0
    ELSE Len(RowCols(cf, Head(keys), lo, hi)) + multiget_count(cf, Tail(keys), lo, hi)

\* ColumnFamily.multiget(keys, column_start, column_finish, column_count,
\* column_reversed): the rows in the order of keys, those without a column
\* in the slice left out, each with at most column_count columns.  A
\* reversed slice runs from column_start down to column_finish.
RECURSIVE multiget(_, _, _, _, _, _)
multiget(cf, keys, start, finish, count, reversed) ==
    IF keys = <<>> THEN <<>>
    ELSE LET k == Head(keys)
             cols == IF reversed THEN Reverse(RowCols(cf, k, finish, start))
                     ELSE RowCols(cf, k, start, finish)
             rest == multiget(cf, Tail(keys), start, finish, count, reversed)
         IN  IF cols = <<>> THEN rest
             ELSE <<[key |-> k, cols |-> FirstN(cols, count)]>> \o rest

\* _get_row_keys with the years in descending order
get_row_keys_descending(path, freq, ts_min, ts_max) ==
    LET year_start == YearOf(ts_min)
        year_finish == YearOf(ts_max)
    IN  [i \in 1..(IF year_finish >= year_start
                    THEN year_finish + 1 - year_start ELSE 0)
            |-> get_rowkey(path, freq, year_finish + 1 - i)]

\* _get_row_keys without the loop over the years: the first year only
get_row_keys_first_year(path, freq, ts_min, ts_max) ==
    <<get_rowkey(path, freq, YearOf(ts_min))>>

\* _get_row_keys with range(year_start, year_finish): the last year left out
get_row_keys_exclusive(path, freq, ts_min, ts_max) ==
    LET year_start == YearOf(ts_min)
        year_finish == YearOf(ts_max)
    IN  IF year_start # year_finish
        THEN [i \in 1..(IF year_finish >= year_start
                        THEN year_finish - year_start ELSE 0)
                |-> get_rowkey(path, freq, year_start + i - 1)]
        ELSE <<get_rowkey(path, freq, year_start)>>

\* CASSANDRA_DB._get_row_keys
get_row_keys(path, freq, ts_min, ts_max) ==
    LET year_start == YearOf(ts_min)
        year_finish == YearOf(ts_max)
    IN  IF year_start # year_finish
        THEN [i \in 1..(IF year_finish >= year_start
                        THEN year_finish + 1 - year_start ELSE 0)
                |-> get_rowkey(path, freq, year_start + i - 1)]
        ELSE <<get_rowkey(path, freq, year_start)>>

-----------------------------------------------------------------------------
(* Initial state: an empty keyspace, empty batches and empty caches *)

NoCall == [op |-> "none", args |-> <<>>, ret |-> <<>>]

NoCodec == [pc |-> "idle", path |-> <<>>, freq |-> 0, year |-> 0,
            key |-> <<>>, out |-> <<>>]

\* the same calls of update_stat_aggregation made by a process that is
\* never restarted, on a store of its own (cache, cf, q); cut: the real
\* process has been restarted, at: the bin of each series at that restart,
\* after: a call was made since, same: every call since was for that bin
NoTwin == [cache |-> <<>>, cf |-> <<>>, q |-> <<>>, cut |-> FALSE, at |-> <<>>,
           after |-> FALSE, same |-> TRUE]

InitDb ==
    /\ cf_raw = <<>> /\ cf_rate = <<>> /\ cf_agg = <<>> /\ cf_stat = <<>>
    /\ raw_data = <<>> /\ rates = <<>> /\ aggs = <<>> /\ stat_agg = <<>>
    /\ metadata_cache = <<>>
    /\ aggregation_cache = <<>>
    /\ last = NoCall
    /\ hist = [n |-> 0, written |-> {}, contrib |-> <<>>, lastbin |-> <<>>,
                mono |-> TRUE, stream |-> <<>>, restarts |-> 0, rollup |-> <<>>,
                rated |-> {}, valid |-> {},
                pc |-> <<0, 0>>, prog |-> <<<<>>, <<>>>>, meta |-> <<<<>>, <<>>>>,
            calls |-> <<>>, reads |-> <<>>, twin |-> NoTwin,
            seen |-> <<>>]

\* no log written yet, no state file, the loader never run
NoLoader == [log |-> <<>>, state |-> <<>>, run |-> <<>>]

Init == InitDb /\ codec = NoCodec /\ loader = NoLoader

stores == <<cf_raw, cf_rate, cf_agg, cf_stat>>
batches == <<raw_data, rates, aggs, stat_agg>>
caches == <<metadata_cache, aggregation_cache>>

\* A behaviour ends with its query: a query changes nothing but its result.
Queried == last.op \in {"query_raw_data", "query_baserate_timerange",
                        "query_aggregation_timerange"}

Samples == [path : Paths, freq : BaseFreqs, ts : TsSet, val : Vals]

-----------------------------------------------------------------------------
(* CASSANDRA_DB.set_raw_data *)

set_raw_data_mutation(d) ==
    [key |-> get_key(d), col |-> ts_to_jstime(d.ts), val |-> json_dumps(d.val)]

SetRawData(d) ==
    LET e == Enqueue(raw_data, set_raw_data_mutation(d))
    IN  /\ hist.n < MaxCalls
        /\ ~Queried
        /\ raw_data' = e.q
        /\ cf_raw' = SendPlain(cf_raw, e.sent)
        /\ hist' = [hist EXCEPT !.n = @ + 1, !.written = @ \cup {d}]
        /\ last' = [op |-> "set_raw_data", args |-> d, ret |-> <<>>]
        /\ UNCHANGED <<cf_rate, cf_agg, cf_stat, rates, aggs, stat_agg, caches, codec, loader>>

(* CASSANDRA_DB.flush *)
Flush ==
    /\ ~Queried
    /\ batches # <<<<>>, <<>>, <<>>, <<>>>>
    /\ cf_raw' = SendPlain(cf_raw, raw_data)
    /\ cf_rate' = SendCounter(cf_rate, rates)
    /\ cf_agg' = SendCounter(cf_agg, aggs)
    /\ cf_stat' = SendSuper(cf_stat, stat_agg)
    /\ raw_data' = <<>> /\ rates' = <<>> /\ aggs' = <<>> /\ stat_agg' = <<>>
    /\ last' = [op |-> "flush", args |-> <<>>, ret |-> <<>>]
    /\ UNCHANGED <<caches, codec, loader, hist>>

(* CASSANDRA_DB.query_raw_data *)

\* the result list built from the rows multiget returned, row after row
RECURSIVE RawResults(_, _)
RawResults(cf, ret) ==
    IF ret = <<>> THEN <<>>
    ELSE LET row == Head(ret)
         IN  [i \in 1..Len(row.cols) |->
                 [ts |-> row.cols[i], val |-> json_loads(cf[<<row.key, row.cols[i]>>])]]
             \o RawResults(cf, Tail(ret))

query_raw_data(cf, path, freq, ts_min, ts_max, column_count) ==
    LET keys == get_row_keys(path, freq, ts_min, ts_max)
        cols == IF column_count = None
                THEN multiget_count(cf, keys, ts_min, ts_max) + 5
                ELSE column_count[1]
    IN  RawResults(cf, multiget(cf, keys, ts_min, ts_max, cols, FALSE))

\* the column_count arguments tried: None and the limits 1..MaxLimit
Limits == {None} \cup {Some(n) : n \in 1..MaxLimit}

QueryRawData(path, freq, ts_min, ts_max, column_count) ==
    /\ ~Queried
    /\ ts_min <= ts_max
    /\ last' = [op |-> "query_raw_data",
                args |-> [path |-> path, freq |-> freq, ts_min |-> ts_min,
                          ts_max |-> ts_max, column_count |-> column_count],
                ret |-> query_raw_data(cf_raw, path, freq, ts_min, ts_max, column_count),
                exc |-> "none"]
    /\ UNCHANGED <<stores, batches, caches, codec, loader, hist>>

RawNext ==
    \/ \E d \in Samples : SetRawData(d)
    \/ Flush
    \/ \E p \in Paths, f \in BaseFreqs, t1 \in TsSet, t2 \in TsSet, n \in Limits :
          QueryRawData(p, f, t1, t2, n)

RawSpec == Init /\ [][RawNext]_vars

-----------------------------------------------------------------------------
(* The metadata cache: CASSANDRA_DB.get_metadata, set_metadata and          *)
(* update_metadata.  A Metadata is [last_update, last_val, min_ts, freq,    *)
(* path]; its timestamps are datetimes, kept here as milliseconds.          *)

Metadata(last_update, last_val, min_ts, freq, path) ==
    [last_update |-> last_update, last_val |-> last_val, min_ts |-> min_ts,
     freq |-> freq, path |-> path]

\* the reversed one-column multiget of get_metadata over the look-back window
seek_back(cf, d) ==
    LET ts_max == ts_to_jstime(d.ts) - 1
        ts_min == ts_max - SEEK_BACK_THRESHOLD
    IN  multiget(cf, get_row_keys(d.path, d.freq, ts_min, ts_max),
                 ts_max, ts_min, 1, TRUE)

\* get_metadata taking the first row multiget returned instead of the last
get_metadata_first_row(cache, cf, d) ==
    LET mk == get_meta_key(d)
        ret == seek_back(cf, d)
        ts == ret[1].cols[1]
        meta_d == IF ret # <<>>
                  THEN Metadata(ts, json_loads(cf[<<ret[1].key, ts>>]), ts, d.freq, d.path)
                  ELSE Metadata(d.ts, d.val, d.ts, d.freq, d.path)
    IN  IF mk \notin DOMAIN cache
        THEN [meta |-> meta_d, cache |-> (mk :> meta_d) @@ cache, loaded |-> TRUE]
        ELSE [meta |-> cache[mk], cache |-> cache, loaded |-> FALSE]

\* get_metadata: the Metadata returned, the cache it leaves and whether the
\* record was loaded (the series was not in the cache)
get_metadata(cache, cf, d) ==
    LET mk == get_meta_key(d)
        ret == seek_back(cf, d)
        key == ret[Len(ret)].key
        ts == ret[Len(ret)].cols[1]
        meta_d == IF ret # <<>>
                  THEN Metadata(ts, json_loads(cf[<<key, ts>>]), ts, d.freq, d.path)
                  ELSE Metadata(d.ts, d.val, d.ts, d.freq, d.path)
    IN  IF mk \notin DOMAIN cache
        THEN [meta |-> meta_d, cache |-> (mk :> meta_d) @@ cache, loaded |-> TRUE]
        ELSE [meta |-> cache[mk], cache |-> cache, loaded |-> FALSE]

\* update_metadata(k, metadata)
update_metadata(cache, k, metadata) ==
    (k :> [cache[k] EXCEPT !.last_val = metadata.last_val,
                           !.min_ts = metadata.min_ts,
                           !.last_update = metadata.last_update]) @@ cache

\* Metadata.refresh_from_raw(data)
refresh_from_raw(meta, d) ==
    [meta EXCEPT !.min_ts = IF meta.min_ts > d.ts THEN d.ts ELSE @,
                 !.last_update = d.ts,
                 !.last_val = d.val]

\* the samples that arrive after those written: one second after the first
\* year boundary, half a second after that, and a look-back later
NowTs == LET soon == (SecPerYear + 1) * MsPerSec
         IN  {soon, soon + 500, soon + SEEK_BACK_THRESHOLD}

GetMetadata(d) ==
    LET g == get_metadata(metadata_cache, cf_raw, d)
    IN  /\ last.op # "get_metadata"
        /\ metadata_cache' = g.cache
        /\ last' = [op |-> "get_metadata", args |-> d,
                    ret |-> [meta |-> g.meta, loaded |-> g.loaded]]
        /\ UNCHANGED <<stores, batches, aggregation_cache, codec, loader, hist>>

\* the samples written before: those of the series that is looked up, and
\* those of another series
MetaSamples == [path : {PathB}, freq : BaseFreqs, ts : TsSet, val : Vals]
                 \cup [path : {PathA}, freq : BaseFreqs, ts : TsSet, val : {0}]

MetaNext ==
    \/ \E d \in MetaSamples : SetRawData(d)
    \/ Flush
    \/ \E d \in [path : {PathB}, freq : BaseFreqs, ts : NowTs, val : Vals] : GetMetadata(d)

MetaSpec == Init /\ [][MetaNext]_vars

-----------------------------------------------------------------------------
(* The stat aggregations: CASSANDRA_DB.get_agg_from_cache,                  *)
(* update_agg_cache and update_stat_aggregation                            *)

\* AggregationBin(ts=agg_ts, freq=freq, val=raw_data.val,
\*                base_freq=raw_data.freq, path=raw_data.path)
AggregationBin(d, agg_ts, freq) ==
    [path |-> d.path, freq |-> freq, ts |-> agg_ts, val |-> d.val,
     base_freq |-> d.freq]

\* dict.get(k, None) is falsy: no entry, or an empty dict
Falsy(f, k) == k \notin DOMAIN f \/ f[k] = <<>>

\* get_agg_from_cache starting a new cache for a row that is not cached
get_agg_from_cache_one_row(cache, cf, agg, d) ==
    LET k == get_key(agg)
        t == ts_to_jstime(agg.ts)
        miss == Falsy(cache, k)
        row1 == IF miss
                THEN (IF <<k, t>> \in DOMAIN cf THEN (t :> cf[<<k, t>>]) ELSE <<>>)
                ELSE cache[k]
        fresh == [min |-> agg.val, max |-> agg.val,
                  min_ts |-> ts_to_jstime(d.ts), max_ts |-> ts_to_jstime(d.ts)]
        newbin == Falsy(row1, t)
        row2 == IF newbin THEN (t :> fresh) ELSE row1
    IN  [ret |-> IF newbin THEN None ELSE Some(row1[t]),
         cache |-> IF miss THEN (k :> row2) ELSE (k :> row2) @@ cache,
         read |-> miss]

\* get_agg_from_cache looking the bin up in the store whenever the bin is
\* not cached
get_agg_from_cache_read_per_bin(cache, cf, agg, d) ==
    LET k == get_key(agg)
        t == ts_to_jstime(agg.ts)
        miss == Falsy(cache, k) \/ Falsy(cache[k], t)
        row1 == IF miss
                THEN (IF <<k, t>> \in DOMAIN cf THEN (t :> cf[<<k, t>>]) ELSE <<>>)
                ELSE cache[k]
        fresh == [min |-> agg.val, max |-> agg.val,
                  min_ts |-> ts_to_jstime(d.ts), max_ts |-> ts_to_jstime(d.ts)]
        newbin == Falsy(row1, t)
        row2 == IF newbin THEN (t :> fresh) ELSE row1
    IN  [ret |-> IF newbin THEN None ELSE Some(row1[t]),
         cache |-> (k :> row2) @@ cache,
         read |-> miss]

\* get_agg_from_cache never looking the bin up in the store
get_agg_from_cache_no_seed(cache, cf, agg, d) ==
    LET k == get_key(agg)
        t == ts_to_jstime(agg.ts)
        miss == Falsy(cache, k)
        row1 == IF miss THEN <<>> ELSE cache[k]
        fresh == [min |-> agg.val, max |-> agg.val,
                  min_ts |-> ts_to_jstime(d.ts), max_ts |-> ts_to_jstime(d.ts)]
        newbin == Falsy(row1, t)
        row2 == IF newbin THEN (t :> fresh) ELSE row1
    IN  [ret |-> IF newbin THEN None ELSE Some(row1[t]),
         cache |-> (k :> row2) @@ cache,
         read |-> miss]

\* get_agg_from_cache: gives the bin found (None when a new bin is started),
\* the cache it leaves and whether the store was read
get_agg_from_cache(cache, cf, agg, d) ==
    LET k == get_key(agg)
        t == ts_to_jstime(agg.ts)
        miss == Falsy(cache, k)
        \* the row is not cached: seed it from the store, or leave it empty
        row1 == IF miss
                THEN (IF <<k, t>> \in DOMAIN cf THEN (t :> cf[<<k, t>>]) ELSE <<>>)
                ELSE cache[k]
        fresh == [min |-> agg.val, max |-> agg.val,
                  min_ts |-> ts_to_jstime(d.ts), max_ts |-> ts_to_jstime(d.ts)]
        newbin == Falsy(row1, t)
        row2 == IF newbin THEN (t :> fresh) ELSE row1
    IN  [ret |-> IF newbin THEN None ELSE Some(row1[t]),
         cache |-> (k :> row2) @@ cache,
         read |-> miss]

\* update_agg_cache writing the other extreme of the bin
update_agg_cache_swapped(cache, agg, d, minmax) ==
    LET k == get_key(agg)
        t == ts_to_jstime(agg.ts)
        bin == IF minmax = "min"
               THEN [max |-> agg.val, max_ts |-> ts_to_jstime(d.ts)] @@ cache[k][t]
               ELSE [min |-> agg.val, min_ts |-> ts_to_jstime(d.ts)] @@ cache[k][t]
    IN  (k :> ((t :> bin) @@ cache[k])) @@ cache

\* update_agg_cache(agg, raw_data, minmax)
update_agg_cache(cache, agg, d, minmax) ==
    LET k == get_key(agg)
        t == ts_to_jstime(agg.ts)
        bin == IF minmax = "max"
               THEN [max |-> agg.val, max_ts |-> ts_to_jstime(d.ts)] @@ cache[k][t]
               ELSE [min |-> agg.val, min_ts |-> ts_to_jstime(d.ts)] @@ cache[k][t]
    IN  (k :> ((t :> bin) @@ cache[k])) @@ cache

\* update_stat_aggregation without its branch for a new minimum
stat_branch_no_min(ret, val) ==
    IF ret = None THEN "insert"
    ELSE IF val > ret[1].max THEN "max"
    ELSE "none"

\* update_stat_aggregation writing a new maximum on a tie as well
stat_branch_ties(ret, val) ==
    IF ret = None THEN "insert"
    ELSE IF val >= ret[1].max THEN "max"
    ELSE IF val < ret[1].min THEN "min"
    ELSE "none"

\* the branch update_stat_aggregation takes for the bin get_agg_from_cache
\* gave: "insert", "max", "min" or "none"
stat_branch(ret, val) ==
    IF ret = None THEN "insert"
    ELSE IF val > ret[1].max THEN "max"
    ELSE IF val < ret[1].min THEN "min"
    ELSE "none"

\* update_stat_aggregation: the cache it leaves, the sub-columns it inserts
\* (None when it writes nothing) and the value it returns
update_stat_aggregation(cache, cf, d, agg_ts, freq) ==
    LET agg == AggregationBin(d, agg_ts, freq)
        g == get_agg_from_cache(cache, cf, agg, d)
        b == stat_branch(g.ret, agg.val)
        rawts == ts_to_jstime(d.ts)
        cols == IF b = "insert"
                THEN [min |-> agg.val, max |-> agg.val, min_ts |-> rawts, max_ts |-> rawts]
                ELSE IF b = "max" THEN [max |-> agg.val, max_ts |-> rawts]
                ELSE [min |-> agg.val, min_ts |-> rawts]
    IN  [cache |-> IF b \in {"max", "min"} THEN update_agg_cache(g.cache, agg, d, b)
                   ELSE g.cache,
         write |-> IF b = "none" THEN None
                   ELSE Some([key |-> get_key(agg), col |-> ts_to_jstime(agg.ts),
                              val |-> cols]),
         updated |-> b # "none",
         read |-> g.read]

\* The caller of the aggregator (esmond.persist) hands over a base-rate bin
\* and the slot of its timestamp at the rollup frequency.
AggTs(d, freq) == (ts_to_jstime(d.ts) \div freq) * freq

\* the base-rate bins handed to the aggregator: on whole slots of the base
\* frequency, from two seconds before the first year boundary
BinTs == {(SecPerYear - 2) * MsPerSec + i * 1000 : i \in 0..MaxTsSteps}
BinVals == 0..(MaxVal + 1)
Bins == [path : {PathB}, freq : BaseFreqs, ts : BinTs, val : BinVals]

UpdateStatAggregation(d, freq) ==
    LET agg_ts == AggTs(d, freq)
        u == update_stat_aggregation(aggregation_cache, cf_stat, d, agg_ts, freq)
        e == IF u.write = None THEN [q |-> stat_agg, sent |-> <<>>]
             ELSE Enqueue(stat_agg, u.write[1])
        bin == <<get_rowkey(d.path, freq, YearOf(agg_ts)), agg_ts>>
        series == <<d.path, freq>>
        c == [val |-> d.val, ts |-> d.ts]
        k == bin[1]
        tw == hist.twin
        tu == update_stat_aggregation(tw.cache, tw.cf, d, agg_ts, freq)
        te == IF tu.write = None THEN [q |-> tw.q, sent |-> <<>>]
              ELSE Enqueue(tw.q, tu.write[1])
    IN  /\ hist.n < MaxStatCalls
        /\ ~Queried
        /\ aggregation_cache' = u.cache
        /\ stat_agg' = e.q
        /\ cf_stat' = SendSuper(cf_stat, e.sent)
        /\ last' = [op |-> "update_stat_aggregation",
                    args |-> [d |-> d, agg_ts |-> agg_ts, freq |-> freq],
                    ret |-> u.updated]
        /\ hist' = [hist EXCEPT
              !.n = @ + 1,
              !.contrib = (bin :> (IF bin \in DOMAIN @ THEN @[bin] \cup {c} ELSE {c})) @@ @,
              !.lastbin = (series :> agg_ts) @@ @,
              !.mono = @ /\ (series \in DOMAIN hist.lastbin => hist.lastbin[series] <= agg_ts),
              !.calls = (k :> (IF k \in DOMAIN @ THEN @[k] + 1 ELSE 1)) @@ @,
              !.reads = IF u.read
                        THEN (k :> (IF k \in DOMAIN @ THEN @[k] + 1 ELSE 1)) @@ @
                        ELSE @,
              !.twin = [@ EXCEPT
                  !.cache = tu.cache, !.q = te.q, !.cf = SendSuper(tw.cf, te.sent),
                  !.after = tw.cut,
                  !.same = @ /\ (tw.cut => (series \in DOMAIN tw.at /\ tw.at[series] = agg_ts))]]
        /\ UNCHANGED <<cf_raw, cf_rate, cf_agg, raw_data, rates, aggs,
                       metadata_cache, codec, loader>>

\* A worker is stopped and a new process started: the in-flight sample is
\* finished, the batches are flushed and the caches start empty.
Restart ==
    /\ caches # <<<<>>, <<>>>>
    /\ cf_raw' = SendPlain(cf_raw, raw_data)
    /\ cf_rate' = SendCounter(cf_rate, rates)
    /\ cf_agg' = SendCounter(cf_agg, aggs)
    /\ cf_stat' = SendSuper(cf_stat, stat_agg)
    /\ raw_data' = <<>> /\ rates' = <<>> /\ aggs' = <<>> /\ stat_agg' = <<>>
    /\ metadata_cache' = <<>>
    /\ aggregation_cache' = <<>>
    /\ last' = [op |-> "restart", args |-> <<>>, ret |-> <<>>]
    /\ hist' = [hist EXCEPT !.restarts = 1, !.calls = <<>>, !.reads = <<>>,
                             !.twin = IF @.cut THEN @
                                      ELSE [@ EXCEPT !.cut = TRUE, !.at = hist.lastbin]]
    /\ UNCHANGED <<codec, loader>>

StatNext ==
    \/ \E d \in Bins, f \in AggFreqs : UpdateStatAggregation(d, f)
    \/ Flush
    \/ Restart

StatSpec == Init /\ [][StatNext]_vars

-----------------------------------------------------------------------------
(* The rate tables: CASSANDRA_DB.update_rate_bin and                        *)
(* update_rate_aggregation.  A BaseRateBin is [path, freq, ts, val,         *)
(* is_valid].  The names of the sub-columns of rate_aggregations are        *)
(* strings of characters, as the name of the count is str(base_freq).       *)

VAL == <<"v", "a", "l">>

\* update_rate_bin counting every bin as a valid one
update_rate_bin_mutation_always_valid(ratebin) ==
    [key |-> get_key(ratebin), col |-> ts_to_jstime(ratebin.ts),
     val |-> [val |-> ratebin.val, is_valid |-> 1]]

update_rate_bin_mutation(ratebin) ==
    [key |-> get_key(ratebin), col |-> ts_to_jstime(ratebin.ts),
     val |-> [val |-> ratebin.val, is_valid |-> ratebin.is_valid]]

\* update_rate_aggregation adding the value to the count
update_rate_aggregation_mutation_count_val(d, agg_ts, freq) ==
    LET agg == AggregationBin(d, agg_ts, freq)
    IN  [key |-> get_key(agg), col |-> ts_to_jstime(agg.ts),
         val |-> (VAL :> agg.val) @@ (str(agg.base_freq) :> agg.val)]

\* update_rate_aggregation naming the count after the value
update_rate_aggregation_mutation_by_val(d, agg_ts, freq) ==
    LET agg == AggregationBin(d, agg_ts, freq)
    IN  [key |-> get_key(agg), col |-> ts_to_jstime(agg.ts),
         val |-> (VAL :> agg.val) @@ (str(agg.val) :> 1)]

update_rate_aggregation_mutation(d, agg_ts, freq) ==
    LET agg == AggregationBin(d, agg_ts, freq)
    IN  [key |-> get_key(agg), col |-> ts_to_jstime(agg.ts),
         val |-> (VAL :> agg.val) @@ (str(agg.base_freq) :> 1)]

UpdateRateBin(ratebin) ==
    LET e == Enqueue(rates, update_rate_bin_mutation(ratebin))
    IN  /\ hist.n < MaxCalls
        /\ ~Queried
        /\ rates' = e.q
        /\ cf_rate' = SendCounter(cf_rate, e.sent)
        /\ hist' = [hist EXCEPT !.n = @ + 1,
                                !.rated = @ \cup {<<get_key(ratebin), ts_to_jstime(ratebin.ts)>>}]
        /\ last' = [op |-> "update_rate_bin", args |-> ratebin, ret |-> <<>>]
        /\ UNCHANGED <<cf_raw, cf_agg, cf_stat, raw_data, aggs, stat_agg, caches, codec, loader>>

UpdateRateAggregation(d, freq) ==
    LET agg_ts == AggTs(d, freq)
        m == update_rate_aggregation_mutation(d, agg_ts, freq)
        e == Enqueue(aggs, m)
        bin == <<m.key, m.col>>
    IN  /\ hist.n < MaxCalls
        /\ ~Queried
        /\ aggs' = e.q
        /\ cf_agg' = SendCounter(cf_agg, e.sent)
        /\ hist' = [hist EXCEPT
              !.n = @ + 1,
              !.rollup = (bin :> (IF bin \in DOMAIN @
                                  THEN [sum |-> @[bin].sum + d.val, n |-> @[bin].n + 1,
                                        base_freq |-> d.freq]
                                  ELSE [sum |-> d.val, n |-> 1, base_freq |-> d.freq])) @@ @]
        /\ last' = [op |-> "update_rate_aggregation",
                    args |-> [d |-> d, agg_ts |-> agg_ts, freq |-> freq], ret |-> <<>>]
        /\ UNCHANGED <<cf_raw, cf_rate, cf_stat, raw_data, rates, stat_agg, caches, codec, loader>>

-----------------------------------------------------------------------------
(* The queries: CASSANDRA_DB.query_baserate_timerange and                   *)
(* query_aggregation_timerange.  A quotient of the result is kept as        *)
(* [num, den]; a query gives [exc, rows]: the exception it raises, if any,  *)
(* and the result list it returns.                                         *)

AGG_TYPES == {"average", "min", "max", "raw"}

Quot(n, d) == [num |-> n, den |-> d]

\* the column count of a query: the one given, or the count of the
\* columns of the rows in the range, plus 5
QueryCols(cf, keys, ts_min, ts_max, column_count) ==
    IF column_count = None THEN multiget_count(cf, keys, ts_min, ts_max) + 5
    ELSE column_count[1]

RECURSIVE BaserateResults(_, _, _)
BaserateResults(cf, ret, divisor) ==
    IF ret = <<>> THEN <<>>
    ELSE LET row == Head(ret)
         IN  [i \in 1..Len(row.cols) |->
                 LET vv == cf[<<row.key, row.cols[i]>>]
                 IN  [ts |-> row.cols[i], val |-> Quot(vv.val, divisor),
                      is_valid |-> vv.is_valid]]
             \o BaserateResults(cf, Tail(ret), divisor)

query_baserate_timerange(cf, path, freq, ts_min, ts_max, consolidation, column_count) ==
    LET keys == get_row_keys(path, freq, ts_min, ts_max)
        cols == QueryCols(cf, keys, ts_min, ts_max, column_count)
        ret == multiget(cf, keys, ts_min, ts_max, cols, FALSE)
        c == IF consolidation \notin {"average", "delta"} THEN "average"
             ELSE consolidation
        \* freq None is 1000; int(freq/1000) of Python 2
        fr == IF freq = 0 THEN 1000 ELSE freq
        divisor == IF c = "average" THEN fr \div 1000 ELSE 1
    IN  IF ret # <<>> /\ divisor = 0
        THEN [exc |-> "ZeroDivisionError", rows |-> <<>>]
        ELSE [exc |-> "none", rows |-> BaserateResults(cf, ret, divisor)]

\* the name and the value of the sub-column of a rate aggregation that is
\* not 'val': the last one the loop over the sub-columns meets
NonVal(vv) ==
    LET names == (DOMAIN vv) \ {VAL}
        n == CHOOSE x \in names : \A y \in names : json_loads(y) <= json_loads(x)
    IN  [base_freq |-> json_loads(n), count |-> vv[n]]

RECURSIVE AggResults(_, _, _)
AggResults(cf, ret, c) ==
    IF ret = <<>> THEN <<>>
    ELSE LET row == Head(ret)
         IN  [i \in 1..Len(row.cols) |->
                 LET vv == cf[<<row.key, row.cols[i]>>]
                     nv == NonVal(vv)
                 IN  [ts |-> row.cols[i],
                      \* AggregationBin.average: val / (count * (base_freq/1000.0))
                      val |-> IF c = "average"
                              THEN Quot(vv[VAL] * 1000, nv.count * nv.base_freq)
                              ELSE Quot(vv[VAL], 1),
                      cf |-> c]]
             \o AggResults(cf, Tail(ret), c)

RECURSIVE StatResults(_, _, _)
StatResults(cf, ret, c) ==
    IF ret = <<>> THEN <<>>
    ELSE LET row == Head(ret)
         IN  [i \in 1..Len(row.cols) |->
                 LET vv == cf[<<row.key, row.cols[i]>>]
                     m_ts == IF c = "min" THEN "min_ts" ELSE "max_ts"
                 IN  [ts |-> row.cols[i], val |-> vv[c], cf |-> c,
                      m_ts |-> IF m_ts \in DOMAIN vv THEN Some(vv[m_ts]) ELSE None]]
             \o StatResults(cf, Tail(ret), c)

query_aggregation_timerange(cfa, cfs, path, freq, ts_min, ts_max, consolidation, column_count) ==
    LET keys == get_row_keys(path, freq, ts_min, ts_max)
        c == IF consolidation \notin AGG_TYPES THEN "average" ELSE consolidation
    IN  IF c \in {"average", "raw"}
        THEN AggResults(cfa, multiget(cfa, keys, ts_min, ts_max,
                            QueryCols(cfa, keys, ts_min, ts_max, column_count), FALSE), c)
        ELSE StatResults(cfs, multiget(cfs, keys, ts_min, ts_max,
                            QueryCols(cfs, keys, ts_min, ts_max, column_count), FALSE), c)

QueryBaserateTimerange(path, freq, ts_min, ts_max, consolidation, column_count) ==
    /\ ~Queried
    /\ ts_min <= ts_max
    /\ LET r == query_baserate_timerange(cf_rate, path, freq, ts_min, ts_max,
                                          consolidation, column_count)
       IN  last' = [op |-> "query_baserate_timerange",
                    args |-> [path |-> path, freq |-> freq, ts_min |-> ts_min,
                              ts_max |-> ts_max, cf |-> consolidation,
                              column_count |-> column_count],
                    ret |-> r.rows, exc |-> r.exc]
    /\ UNCHANGED <<stores, batches, caches, codec, loader, hist>>

QueryAggregationTimerange(path, freq, ts_min, ts_max, consolidation, column_count) ==
    /\ ~Queried
    /\ ts_min <= ts_max
    /\ last' = [op |-> "query_aggregation_timerange",
                args |-> [path |-> path, freq |-> freq, ts_min |-> ts_min,
                          ts_max |-> ts_max, cf |-> consolidation,
                          column_count |-> column_count],
                ret |-> query_aggregation_timerange(cf_agg, cf_stat, path, freq, ts_min,
                                                    ts_max, consolidation, column_count),
                exc |-> "none"]
    /\ UNCHANGED <<stores, batches, caches, codec, loader, hist>>

\* The writes and the queries of the four column families together, for
\* one series whose values all are 1; the ranges queried start at the first
\* bin.
QBins == [path : {PathB}, freq : BaseFreqs, ts : BinTs, val : {1}]
Consolidations == AGG_TYPES \cup {"delta"}

QueryNext ==
    \/ \E d \in QBins : SetRawData(d)
    \/ \E d \in QBins : UpdateRateBin([path |-> d.path, freq |-> d.freq, ts |-> d.ts,
                                       val |-> d.val, is_valid |-> 1])
    \/ \E d \in QBins, f \in AggFreqs : UpdateRateAggregation(d, f)
    \/ \E d \in QBins, f \in AggFreqs : UpdateStatAggregation(d, f)
    \/ Flush
    \/ \E t1 \in {(SecPerYear - 2) * MsPerSec}, t2 \in BinTs, n \in Limits :
          \/ \E f \in BaseFreqs : QueryRawData(PathB, f, t1, t2, n)
          \/ \E c \in {"average", "delta"}, f \in BaseFreqs :
                QueryBaserateTimerange(PathB, f, t1, t2, c, n)
          \/ \E c \in Consolidations, f \in AggFreqs :
                QueryAggregationTimerange(PathB, f, t1, t2, c, n)

QuerySpec == Init /\ [][QueryNext]_vars

-----------------------------------------------------------------------------
(* The sample handler of the persister (esmond.persist), which drives the   *)
(* store: persist the raw sample, load the metadata, classify the delta,    *)
(* increment the base-rate bins, fan out to the aggregations, update the    *)
(* metadata.  It works on the state of one CASSANDRA_DB, held as a record.  *)

Db == [cf_raw |-> cf_raw, cf_rate |-> cf_rate, cf_agg |-> cf_agg, cf_stat |-> cf_stat,
       raw_data |-> raw_data, rates |-> rates, aggs |-> aggs, stat_agg |-> stat_agg,
       metadata_cache |-> metadata_cache, aggregation_cache |-> aggregation_cache]

EmptyDb == [cf_raw |-> <<>>, cf_rate |-> <<>>, cf_agg |-> <<>>, cf_stat |-> <<>>,
            raw_data |-> <<>>, rates |-> <<>>, aggs |-> <<>>, stat_agg |-> <<>>,
            metadata_cache |-> <<>>, aggregation_cache |-> <<>>]

\* flush() on a CASSANDRA_DB
flush(db) ==
    [db EXCEPT !.cf_raw = SendPlain(@, db.raw_data), !.raw_data = <<>>,
               !.cf_rate = SendCounter(@, db.rates), !.rates = <<>>,
               !.cf_agg = SendCounter(@, db.aggs), !.aggs = <<>>,
               !.cf_stat = SendSuper(@, db.stat_agg), !.stat_agg = <<>>]

\* a handler that returns before the raw insert
set_raw_data_skipped(db, d, src) == db

\* set_raw_data(raw_data); src names the handler that issued the insert
set_raw_data(db, d, src) ==
    LET e == Enqueue(db.raw_data, set_raw_data_mutation(d) @@ [src |-> src])
    IN  [db EXCEPT !.raw_data = e.q, !.cf_raw = SendPlain(@, e.sent)]

\* update_rate_bin(ratebin)
update_rate_bin(db, ratebin, src) ==
    LET e == Enqueue(db.rates, update_rate_bin_mutation(ratebin) @@ [src |-> src])
    IN  [db EXCEPT !.rates = e.q, !.cf_rate = SendCounter(@, e.sent)]

\* update_rate_aggregation(raw_data, agg_ts, freq)
update_rate_aggregation(db, d, agg_ts, freq) ==
    LET e == Enqueue(db.aggs, update_rate_aggregation_mutation(d, agg_ts, freq))
    IN  [db EXCEPT !.aggs = e.q, !.cf_agg = SendCounter(@, e.sent)]

\* update_stat_aggregation(raw_data, agg_ts, freq) on a CASSANDRA_DB
db_update_stat_aggregation(db, d, agg_ts, freq) ==
    LET u == update_stat_aggregation(db.aggregation_cache, db.cf_stat, d, agg_ts, freq)
        e == IF u.write = None THEN [q |-> db.stat_agg, sent |-> <<>>]
             ELSE Enqueue(db.stat_agg, u.write[1])
    IN  [db EXCEPT !.aggregation_cache = u.cache, !.stat_agg = e.q,
                   !.cf_stat = SendSuper(@, e.sent)]

\* RawRateData.min_last_update
min_last_update(d) == ts_to_jstime(d.ts) - d.freq * 40

BaseRateBin(path, freq, ts, val, is_valid) ==
    [path |-> path, freq |-> freq, ts |-> ts, val |-> val, is_valid |-> is_valid]

\* what a bin of a counter reset or an outlier adds to is_valid
ResetSentinel == 2

\* the slots of the base frequency that [t0, t1] overlaps, ascending
RateSlots(t0, t1, freq) ==
    LET first == (t0 \div freq) * freq
        n == IF t1 % freq = 0 THEN (t1 - first) \div freq ELSE ((t1 - first) \div freq) + 1
    IN  [k \in 1..n |-> first + (k - 1) * freq]

Overlap(s, t0, t1, freq) ==
    (IF s + freq < t1 THEN s + freq ELSE t1) - (IF s > t0 THEN s ELSE t0)

RECURSIVE SumShares(_, _, _, _, _, _)
SumShares(slots, k, t0, t1, dv, freq) ==
    IF k = 0 THEN 0
    ELSE ((dv * Overlap(slots[k], t0, t1, freq)) \div (t1 - t0))
         + SumShares(slots, k - 1, t0, t1, dv, freq)

\* the base-rate bins of a valid delta dv over [t0, t1]: dv split by the
\* time in each slot, the last slot taking what rounding leaves
RateBins(d, t0, t1, dv) ==
    LET slots == RateSlots(t0, t1, d.freq)
        n == Len(slots)
    IN  [k \in 1..n |->
           BaseRateBin(d.path, d.freq, slots[k],
                       IF k < n
                       THEN (dv * Overlap(slots[k], t0, t1, d.freq)) \div (t1 - t0)
                       ELSE dv - SumShares(slots, n - 1, t0, t1, dv, d.freq),
                       1)]

\* the coarser frequencies, in the order the aggregator is called
AggFreqSeq == SortAsc(AggFreqs)

\* F applied to the value of x, x evaluated once
Bind(x, F(_)) == CHOOSE r \in {F(v) : v \in {x}} : TRUE

RECURSIVE FanOut(_, _, _)
FanOut(db, bin, k) ==
    IF k > Len(AggFreqSeq) THEN db
    ELSE LET F == AggFreqSeq[k]
             agg_ts == AggTs(bin, F)
         IN  Bind(update_rate_aggregation(db, bin, agg_ts, F),
                  LAMBDA db1 :
                    Bind(db_update_stat_aggregation(db1, bin, agg_ts, F),
                         LAMBDA db2 : FanOut(db2, bin, k + 1)))

RECURSIVE EmitBins(_, _, _, _, _)
EmitBins(db, bins, k, valid, src) ==
    IF k > Len(bins) THEN db
    ELSE Bind(update_rate_bin(db, bins[k], src),
              LAMBDA db1 :
                Bind(IF valid THEN FanOut(db1, bins[k], 1) ELSE db1,
                     LAMBDA db2 : EmitBins(db2, bins, k + 1, valid, src)))

Classify(d, meta) ==
    LET dt == ts_to_jstime(d.ts) - ts_to_jstime(meta.last_update)
        dv == d.val - meta.last_val
    IN  IF dt <= 0 THEN "drop"
        ELSE IF dv >= 0 /\ ts_to_jstime(meta.last_update) >= min_last_update(d) THEN "valid"
        ELSE "invalid"

\* the handler, from the metadata g loaded after the raw insert
HandleLoaded(db, d, g, src) ==
    LET class == Classify(d, g.meta)
        bins == IF class = "valid"
                THEN RateBins(d, ts_to_jstime(g.meta.last_update), ts_to_jstime(d.ts),
                              d.val - g.meta.last_val)
                ELSE IF class = "invalid"
                THEN <<BaseRateBin(d.path, d.freq, slot(d), 0, ResetSentinel)>>
                ELSE <<>>
    IN  Bind(EmitBins([db EXCEPT !.metadata_cache = g.cache], bins, 1, class = "valid", src),
             LAMBDA db3 :
               IF class = "drop" THEN db3
               ELSE [db3 EXCEPT !.metadata_cache =
                        update_metadata(@, get_meta_key(d), refresh_from_raw(g.meta, d))])

\* the handler of one sample
Handle(db, d, src) ==
    Bind(set_raw_data(db, d, src),
         LAMBDA db1 :
           Bind(get_metadata(db1.metadata_cache, db1.cf_raw, d),
                LAMBDA g : HandleLoaded(db1, d, g, src)))

\* one process handling a whole stream, from the k-th sample on
RECURSIVE Run(_, _, _)
Run(db, stream, k) ==
    IF k > Len(stream) THEN db
    ELSE Bind(Handle(db, stream[k], k), LAMBDA db1 : Run(db1, stream, k + 1))

\* the four tables once the batches are flushed
Tables(db) ==
    LET f == flush(db) IN <<f.cf_raw, f.cf_rate, f.cf_agg, f.cf_stat>>

MaxSamples == 3

\* the base-rate bins that the handler of d increments by a valid delta
DeltaBins(d) ==
    LET meta == get_metadata(metadata_cache, set_raw_data(Db, d, 0).cf_raw, d).meta
        bins == RateBins(d, ts_to_jstime(meta.last_update), ts_to_jstime(d.ts),
                         d.val - meta.last_val)
    IN  IF Classify(d, meta) = "valid"
        THEN {<<get_key(bins[k]), ts_to_jstime(bins[k].ts)>> : k \in 1..Len(bins)}
        ELSE {}

\* per series, the last sample that made the metadata record (a sample the
\* record is seeded with, or a sample that is not dropped) and the earliest
\* timestamp among them; g is what get_metadata gave for the sample
Seen(seen, d, g) ==
    LET mk == get_meta_key(d)
        seeded == g.loaded /\ g.meta.last_update = d.ts /\ g.meta.last_val = d.val
        first == IF mk \in DOMAIN seen /\ seen[mk].first < d.ts THEN seen[mk].first ELSE d.ts
    IN  IF seeded \/ Classify(d, g.meta) # "drop"
        THEN (mk :> [last |-> d, first |-> first]) @@ seen
        ELSE seen

PersistSamples == [path : {PathB}, freq : BaseFreqs, ts : TsSet, val : Vals]

PersistSample(d) ==
    /\ hist.n < MaxSamples
    /\ \E db \in {Handle(Db, d, hist.n + 1)} :
        /\ cf_raw' = db.cf_raw /\ cf_rate' = db.cf_rate
        /\ cf_agg' = db.cf_agg /\ cf_stat' = db.cf_stat
        /\ raw_data' = db.raw_data /\ rates' = db.rates
        /\ aggs' = db.aggs /\ stat_agg' = db.stat_agg
        /\ metadata_cache' = db.metadata_cache
        /\ aggregation_cache' = db.aggregation_cache
        /\ hist' = [hist EXCEPT !.n = @ + 1, !.stream = Append(@, d),
                                !.valid = @ \cup DeltaBins(d),
                                !.seen = Seen(@, d, get_metadata(metadata_cache, db.cf_raw, d))]
        /\ last' = [op |-> "persist", args |-> d,
                    ret |-> Classify(d, get_metadata(metadata_cache, db.cf_raw, d).meta)]
        /\ UNCHANGED <<codec, loader>>

PersistNext ==
    \/ \E d \in PersistSamples : PersistSample(d)
    \/ Flush
    \/ Restart

PersistSpec == Init /\ [][PersistNext]_vars

-----------------------------------------------------------------------------
(* A write whose send exhausts the retry budget of the store: the batch     *)
(* raises MaximumRetryException out of insert().  The store is left as it   *)
(* was; whether the batch keeps the writes it could not send is the         *)
(* library's choice.                                                        *)

WriteOps == {"set_raw_data", "update_rate_bin", "update_rate_aggregation",
             "update_stat_aggregation"}

\* the batch after a send that failed
FailedSend(q, m, keep) == IF keep THEN Append(q, m) ELSE <<>>

\* insert() sends: the queue reaches queue_size with this write
Sends(q) == Len(q) + 1 >= queue_size

\* what each write operation lets out when its insert() raises
\* MaximumRetryException: set_raw_data and update_stat_aggregation call
\* insert() bare, update_rate_bin and update_rate_aggregation catch it
set_raw_data_raises == "MaximumRetryException"
update_rate_bin_raises == "none"
update_rate_aggregation_raises == "none"
update_stat_aggregation_raises == "MaximumRetryException"

FailedCall(op, args, exc) ==
    [op |-> op, args |-> args, ret |-> <<>>, exc |-> exc]

FailSetRawData(d, keep) ==
    /\ hist.n < MaxCalls
    /\ Sends(raw_data)
    /\ raw_data' = FailedSend(raw_data, set_raw_data_mutation(d), keep)
    /\ hist' = [hist EXCEPT !.n = @ + 1]
    /\ last' = FailedCall("set_raw_data", d, set_raw_data_raises)
    /\ UNCHANGED <<stores, rates, aggs, stat_agg, caches, codec, loader>>

FailUpdateRateBin(ratebin, keep) ==
    /\ hist.n < MaxCalls
    /\ Sends(rates)
    /\ rates' = FailedSend(rates, update_rate_bin_mutation(ratebin), keep)
    /\ hist' = [hist EXCEPT !.n = @ + 1]
    /\ last' = FailedCall("update_rate_bin", ratebin, update_rate_bin_raises)
    /\ UNCHANGED <<stores, raw_data, aggs, stat_agg, caches, codec, loader>>

FailUpdateRateAggregation(d, freq, keep) ==
    /\ hist.n < MaxCalls
    /\ Sends(aggs)
    /\ aggs' = FailedSend(aggs, update_rate_aggregation_mutation(d, AggTs(d, freq), freq), keep)
    /\ hist' = [hist EXCEPT !.n = @ + 1]
    /\ last' = FailedCall("update_rate_aggregation", [d |-> d, freq |-> freq],
                          update_rate_aggregation_raises)
    /\ UNCHANGED <<stores, raw_data, rates, stat_agg, caches, codec, loader>>

\* the cache is read and updated before insert() is called
FailUpdateStatAggregation(d, freq, keep) ==
    LET u == update_stat_aggregation(aggregation_cache, cf_stat, d, AggTs(d, freq), freq)
    IN  /\ hist.n < MaxCalls
        /\ u.write # None
        /\ Sends(stat_agg)
        /\ stat_agg' = FailedSend(stat_agg, u.write[1], keep)
        /\ aggregation_cache' = u.cache
        /\ hist' = [hist EXCEPT !.n = @ + 1]
        /\ last' = FailedCall("update_stat_aggregation", [d |-> d, freq |-> freq],
                              update_stat_aggregation_raises)
        /\ UNCHANGED <<stores, raw_data, rates, aggs, metadata_cache, codec, loader>>

FailNext ==
    \/ \E d \in QBins : SetRawData(d)
    \/ \E d \in QBins : UpdateRateBin(BaseRateBin(d.path, d.freq, d.ts, d.val, 1))
    \/ \E d \in QBins, f \in AggFreqs : UpdateRateAggregation(d, f)
    \/ \E d \in QBins, f \in AggFreqs : UpdateStatAggregation(d, f)
    \/ Flush
    \/ \E d \in QBins, keep \in BOOLEAN : FailSetRawData(d, keep)
    \/ \E d \in QBins, keep \in BOOLEAN :
          FailUpdateRateBin(BaseRateBin(d.path, d.freq, d.ts, d.val, 1), keep)
    \/ \E d \in QBins, f \in AggFreqs, keep \in BOOLEAN : FailUpdateRateAggregation(d, f, keep)
    \/ \E d \in QBins, f \in AggFreqs, keep \in BOOLEAN : FailUpdateStatAggregation(d, f, keep)

FailSpec == Init /\ [][FailNext]_vars

-----------------------------------------------------------------------------
(* The rate tables and their queries for series of several base             *)
(* frequencies: each path has one base frequency.                           *)

PathC == << <<"c">> >>

\* a series below one second, one of a whole second and one between
AvgSeries == {[path |-> PathA, freq |-> 500], [path |-> PathB, freq |-> 1000],
              [path |-> PathC, freq |-> 1500]}

AvgVals == 1..(MaxVal + 1)

AvgBins == {[path |-> s.path, freq |-> s.freq, ts |-> t, val |-> v] :
               s \in AvgSeries, t \in {(SecPerYear - 2) * MsPerSec}, v \in AvgVals}

AvgNext ==
    \/ \E d \in AvgBins : UpdateRateBin(BaseRateBin(d.path, d.freq, d.ts, d.val, 1))
    \/ \E d \in AvgBins, f \in AggFreqs : UpdateRateAggregation(d, f)
    \/ Flush
    \/ \E t1 \in {(SecPerYear - 2) * MsPerSec}, t2 \in {(SecPerYear - 1) * MsPerSec},
          n \in {None}, c \in Consolidations, s \in AvgSeries :
          \/ QueryBaserateTimerange(s.path, s.freq, t1, t2, c, n)
          \/ \E f \in AggFreqs : QueryAggregationTimerange(s.path, f, t1, t2, c, n)

AvgSpec == Init /\ [][AvgNext]_vars

-----------------------------------------------------------------------------
(* The rate deriver on streams of a growing counter: one series at the      *)
(* frequency of the rollup, samples on whole seconds before and after the   *)
(* turn of the year, so that a delta can stay in one slot, share a slot     *)
(* with the delta before it, or straddle two slots.                         *)

DeriveFreq == 2 * MsPerSec

DeriveTs == {(SecPerYear + i) * MsPerSec : i \in (0 - 2)..1}

DeriveVals == {0, 1, MaxVal + 2}

DeriveSamples == [path : {PathB}, freq : {DeriveFreq}, ts : DeriveTs, val : DeriveVals]

DeriveNext ==
    \/ \E d \in DeriveSamples : PersistSample(d)
    \/ Flush
    \/ Restart

DeriveSpec == Init /\ [][DeriveNext]_vars

-----------------------------------------------------------------------------
(* Two worker threads on one CASSANDRA_DB, each with a series of its own.   *)
(* A worker handles its samples one after the other; for each it calls the  *)
(* methods of WorkerSteps in order.  A method call is one step: the caches  *)
(* are dicts, whose operations the interpreter runs one at a time, and a    *)
(* batch takes its lock for insert() and send().                            *)

Workers == {1, 2}

WorkerPath(w) == IF w = 1 THEN PathA ELSE PathB

\* the times of the samples of a worker: the last second of a year and the
\* first of the next
WorkerTs == <<(SecPerYear - 1) * MsPerSec, SecPerYear * MsPerSec>>

WorkerSteps == <<"get_metadata", "update_rate_bin", "update_rate_aggregation",
                 "update_stat_aggregation", "update_metadata">>

WorkerBin(d) == BaseRateBin(d.path, d.freq, slot(d), d.val, 1)

\* the call of the step-th method for sample d, meta being the metadata
\* that get_metadata gave for d
WorkerCall(db, d, meta, step) ==
    LET bin == WorkerBin(d)
        F == AggFreqSeq[1]
    IN  CASE WorkerSteps[step] = "get_metadata" ->
               [db EXCEPT !.metadata_cache = get_metadata(@, db.cf_raw, d).cache]
          [] WorkerSteps[step] = "update_rate_bin" -> update_rate_bin(db, bin, 0)
          [] WorkerSteps[step] = "update_rate_aggregation" ->
               update_rate_aggregation(db, bin, AggTs(bin, F), F)
          [] WorkerSteps[step] = "update_stat_aggregation" ->
               db_update_stat_aggregation(db, bin, AggTs(bin, F), F)
          [] WorkerSteps[step] = "update_metadata" ->
               [db EXCEPT !.metadata_cache =
                   update_metadata(@, get_meta_key(d), refresh_from_raw(meta, d))]

\* worker w makes its next call; it picks the value of a sample when it
\* starts on it
WorkerStep(w) ==
    LET pc == hist.pc[w]
        k == (pc \div Len(WorkerSteps)) + 1
        step == (pc % Len(WorkerSteps)) + 1
    IN  /\ k <= Len(WorkerTs)
        /\ \E v \in Vals :
             LET d == IF step = 1
                      THEN [path |-> WorkerPath(w), freq |-> 1000, ts |-> WorkerTs[k], val |-> v]
                      ELSE hist.prog[w][k]
                 meta == IF step = 1 THEN get_metadata(metadata_cache, cf_raw, d).meta
                         ELSE hist.meta[w]
             IN  /\ step > 1 => v = 0
                 /\ \E db \in {WorkerCall(Db, d, meta, step)} :
                      /\ cf_raw' = db.cf_raw /\ cf_rate' = db.cf_rate
                      /\ cf_agg' = db.cf_agg /\ cf_stat' = db.cf_stat
                      /\ raw_data' = db.raw_data /\ rates' = db.rates
                      /\ aggs' = db.aggs /\ stat_agg' = db.stat_agg
                      /\ metadata_cache' = db.metadata_cache
                      /\ aggregation_cache' = db.aggregation_cache
                 /\ hist' = [hist EXCEPT !.pc[w] = pc + 1,
                                         !.prog[w] = IF step = 1 THEN Append(@, d) ELSE @,
                                         !.meta[w] = meta]
                 /\ last' = [op |-> WorkerSteps[step], args |-> d, ret |-> w]
                 /\ UNCHANGED <<codec, loader>>

WorkerNext == \E w \in Workers : WorkerStep(w)

WorkerSpec == Init /\ [][WorkerNext]_vars

\* one worker handling sample d alone, from its step-th call on
RECURSIVE RunSample(_, _, _, _)
RunSample(db, d, meta, step) ==
    IF step > Len(WorkerSteps) THEN db
    ELSE Bind(WorkerCall(db, d, meta, step),
              LAMBDA db1 : RunSample(db1, d, meta, step + 1))

\* one worker handling its samples alone, from the k-th on
RECURSIVE RunWorker(_, _, _)
RunWorker(db, prog, k) ==
    IF k > Len(prog) THEN db
    ELSE Bind(RunSample(db, prog[k], get_metadata(db.metadata_cache, db.cf_raw, prog[k]).meta, 1),
              LAMBDA db1 : RunWorker(db1, prog, k + 1))

\* the workers one after the other, w first
Serial(w) ==
    RunWorker(RunWorker(EmptyDb, hist.prog[w], 1), hist.prog[3 - w], 1)

-----------------------------------------------------------------------------
(* The GridFTP loader (src/util/load_grid_ftp.py).  A log is a sequence of  *)
(* lines.  A line of transfer statistics is the text after 'Transfer        *)
(* stats: ': fields KEY=text separated by blanks.  The text of a field is   *)
(* kept as its words (the pieces between blanks), a word as its pieces      *)
(* between '=' signs: <<"x">> is the word x, <<"K", "x">> the word K=x.     *)
(* The state file holds the dict of the last record loaded, or does not     *)
(* exist (None).                                                            *)

\* k.lower().replace('.', '_') on the keys of a GridFTP log
Lower(k) ==
    CASE k = "DATE" -> "date" [] k = "START" -> "start" [] k = "USER" -> "user"
      [] k = "FILE" -> "file" [] k = "NBYTES" -> "nbytes" [] k = "VOLUME" -> "volume"
      [] k = "DEST" -> "dest" [] k = "HOST" -> "host" [] k = "TYPE" -> "type"
      [] k = "CODE" -> "code" [] k = "NL.EVNT" -> "nl_evnt"

\* row.split(): the tokens of a line, each as i.split('=') gives it
RECURSIVE Tokens(_)
Tokens(fields) ==
    IF fields = <<>> THEN <<>>
    ELSE LET f == Head(fields)
         IN  <<(<<f.key>> \o f.text[1])>> \o Tail(f.text) \o Tokens(Tail(fields))

\* LogEntryDataObject(initial) for a list: k, v = i.split('=') raises
\* ValueError unless the token holds exactly one '='
RECURSIVE LogEntryDataObject(_, _)
LogEntryDataObject(tokens, data) ==
    IF tokens = <<>> THEN [exc |-> "none", data |-> data]
    ELSE LET i == Head(tokens)
         IN  IF Len(i) # 2 THEN [exc |-> "ValueError", data |-> data]
             ELSE LogEntryDataObject(Tail(tokens), (Lower(i[1]) :> i[2]) @@ data)

\* LogEntryDataObject.__getattr__: None for a key that is not there
Attr(o, name) == IF name \in DOMAIN o THEN Some(o[name]) ELSE None

\* _filter_log and the tests of the loop: the line is one of transfer stats
IsStats(row) == row.kind = "stats" /\ row.fields # <<>>

\* _convert_host(dest, hn): the address the resolver gives for the host
convert_host(dest, hn) == <<"addr", hn>>

\* _generate_metadata_args(o)
generate_metadata_args(o) ==
    LET dest == Attr(o, "dest")
        host == Attr(o, "host")
        base == [tool_name |-> "gridftp", subject_type |-> "point-to-point",
                 measurement_agent |-> convert_host(dest, host)]
    IN  IF Attr(o, "type") = Some("RETR")
        THEN base @@ [source |-> convert_host(dest, host), destination |-> dest,
                      input_source |-> host, input_destination |-> dest]
        ELSE IF Attr(o, "type") = Some("STOR")
        THEN base @@ [source |-> dest, destination |-> convert_host(dest, host),
                      input_source |-> dest, input_destination |-> host]
        ELSE base

\* the MetadataPost built for a record
MetadataPost(o, options) ==
    [kind |-> "metadata",
     args |-> generate_metadata_args(o),
     keys |-> [nbytes |-> Attr(o, "nbytes")]
              @@ (IF options.file_attr THEN [file |-> Attr(o, "file")] ELSE <<>>)
              @@ (IF options.name_attr THEN [user |-> Attr(o, "user")] ELSE <<>>)
              @@ (IF options.volume_attr THEN [volume |-> Attr(o, "volume")] ELSE <<>>)]

\* the EventTypePost of a record: throughput for code 226, else failures
EventTypePost(o) ==
    IF Attr(o, "code") = Some(226)
    THEN [kind |-> "throughput", ts |-> o.start,
          val |-> Quot(8 * o.nbytes, o.date - o.start)]
    ELSE [kind |-> "failures", ts |-> o.start, val |-> Attr(o, "code")]

\* scan_and_load returning the last record loaded when a post is refused
post_failed_keeps_record(acc) ==
    [o |-> acc.o, posts |-> acc.posts, exc |-> "none"]

\* scan_and_load when post_metadata() gives nothing: log and return None
post_failed(acc) ==
    [o |-> None, posts |-> acc.posts, exc |-> "none"]

\* scan_and_load from the i-th line on.  acc holds scanning, o (the last
\* record parsed), count and the posts made.  fail is the number of the
\* MetadataPost that the backend refuses (0: none).  Gives the record
\* returned (None after a failure), the posts, and the exception raised.
RECURSIVE scan_and_load(_, _, _, _, _, _)
scan_and_load(data, i, last_record, options, fail, acc) ==
    IF i > Len(data) THEN [o |-> acc.o, posts |-> acc.posts, exc |-> "none"]
    ELSE IF ~IsStats(data[i])
    THEN scan_and_load(data, i + 1, last_record, options, fail, acc)
    ELSE LET p == LogEntryDataObject(Tokens(data[i].fields), <<>>)
             o == p.data
         IN  IF p.exc # "none" THEN [o |-> None, posts |-> acc.posts, exc |-> p.exc]
             ELSE IF last_record # None /\ ~acc.scanning
             THEN scan_and_load(data, i + 1, last_record, options, fail,
                      [acc EXCEPT !.o = Some(o), !.scanning = (o = last_record[1])])
             ELSE IF acc.count + 1 = fail
             THEN post_failed(acc)
             ELSE LET posts == acc.posts \o <<MetadataPost(o, options), EventTypePost(o)>>
                  IN  IF options.single
                      THEN [o |-> Some(o), posts |-> posts, exc |-> "none"]
                      ELSE scan_and_load(data, i + 1, last_record, options, fail,
                               [acc EXCEPT !.o = Some(o), !.count = @ + 1,
                                           !.posts = posts])

NoScan == [scanning |-> FALSE, o |-> <<>>, count |-> 0, posts |-> <<>>]

\* main, the check that the log holds the last record, from the i-th line
\* on: whether it was found, and the exception of a line that does not parse
RECURSIVE last_record_check(_, _, _)
last_record_check(data, i, last_record) ==
    IF i > Len(data) THEN [found |-> FALSE, exc |-> "none"]
    ELSE IF ~IsStats(data[i]) THEN last_record_check(data, i + 1, last_record)
    ELSE LET p == LogEntryDataObject(Tokens(data[i].fields), <<>>)
         IN  IF p.exc # "none" THEN [found |-> FALSE, exc |-> p.exc]
             ELSE IF p.data = last_record[1] THEN [found |-> TRUE, exc |-> "none"]
             ELSE last_record_check(data, i + 1, last_record)

\* main processing every log from its first line
last_record_ignored(check, state) ==
    None

\* main, the record to resume from: the saved one when the log holds it,
\* none when there is no state file or the log was rotated
last_record_used(check, state) ==
    IF check.found THEN state ELSE None

\* main(): the posts of the run, the state file it leaves and the
\* exception it ends with
main(data, state, options, fail) ==
    LET check == IF state = None THEN [found |-> FALSE, exc |-> "none"]
                 ELSE last_record_check(data, 1, state)
        last_record == last_record_used(check, state)
        r == scan_and_load(data, 1, last_record, options, fail, NoScan)
        written == IF r.o # None /\ options.write THEN r.o ELSE state
    IN  IF check.exc # "none"
        THEN [posts |-> <<>>, state |-> state, exc |-> check.exc]
        ELSE IF r.exc # "none"
        THEN [posts |-> r.posts, state |-> state, exc |-> r.exc]
        ELSE IF ~options.delete_state
        THEN [posts |-> r.posts, state |-> written, exc |-> "none"]
        ELSE IF written = None
        THEN [posts |-> r.posts, state |-> None, exc |-> "OSError"]
        ELSE [posts |-> r.posts, state |-> None, exc |-> "none"]

MaxLog == 3
MaxRuns == 2

Word(x) == <<x>>

\* a line of transfer stats as the server writes it, the transfer taking
\* one unit of time
StatsLine(t, file, volume, code) ==
    [kind |-> "stats",
     fields |-> <<[key |-> "DATE", text |-> <<Word(t + 1)>>],
                  [key |-> "HOST", text |-> <<Word("h")>>],
                  [key |-> "START", text |-> <<Word(t)>>],
                  [key |-> "USER", text |-> <<Word("u")>>],
                  [key |-> "FILE", text |-> file],
                  [key |-> "NBYTES", text |-> <<Word(2)>>],
                  [key |-> "VOLUME", text |-> volume],
                  [key |-> "DEST", text |-> <<Word("d")>>],
                  [key |-> "TYPE", text |-> <<Word("RETR")>>],
                  [key |-> "CODE", text |-> <<Word(code)>>]>>]

OtherLine == [kind |-> "other", fields |-> <<>>]

\* transfers end well (226) and aborted (426) in turn
CodeAt(t) == IF t % 2 = 1 THEN 226 ELSE 426

\* the lines the server can write next: the clock of the log has moved on
LogLines ==
    LET t == Len(loader.log) + 1
    IN  {OtherLine, StatsLine(t, <<Word("f")>>, <<Word("v")>>, CodeAt(t))}

Flags == [single : BOOLEAN, write : BOOLEAN, delete_state : BOOLEAN,
          file_attr : {FALSE}, name_attr : {FALSE}, volume_attr : {FALSE}]

LogWrite(row) ==
    /\ Len(loader.log) < MaxLog
    /\ loader' = [loader EXCEPT !.log = Append(@, row)]
    /\ UNCHANGED <<stores, batches, caches, codec, last, hist>>

LoaderRun(options, fail) ==
    LET r == main(loader.log, loader.state, options, fail)
        n == IF loader.run = <<>> THEN 0 ELSE loader.run.n
    IN  /\ n < MaxRuns
        /\ loader' = [loader EXCEPT
              !.state = r.state,
              !.run = [n |-> n + 1, log |-> loader.log, before |-> loader.state,
                       options |-> options, fail |-> fail,
                       posts |-> r.posts, exc |-> r.exc]]
        /\ UNCHANGED <<stores, batches, caches, codec, last, hist>>

LoaderNext ==
    \/ \E row \in LogLines : LogWrite(row)
    \/ \E options \in Flags, fail \in 0..MaxLog : LoaderRun(options, fail)

LoaderSpec == Init /\ [][LoaderNext]_vars

-----------------------------------------------------------------------------
(* The loader on logs whose FILE, USER and VOLUME values vary: a value is   *)
(* one word, or holds a blank and then a second word.                       *)

FileTexts == {<<Word("f")>>, <<Word("f"), Word("x")>>}
UserTexts == {<<Word("u")>>, <<Word("w")>>}
VolumeTexts == {<<Word("v")>>, <<Word("v"), <<"NBYTES", 9>>>>}

\* the line of StatsLine with other values in the three fields
WithValues(row, file, user, volume) ==
    [row EXCEPT !.fields =
        [i \in DOMAIN @ |->
            CASE @[i].key = "FILE" -> [@[i] EXCEPT !.text = file]
              [] @[i].key = "USER" -> [@[i] EXCEPT !.text = user]
              [] @[i].key = "VOLUME" -> [@[i] EXCEPT !.text = volume]
              [] OTHER -> @[i]]]

LeakLines ==
    LET t == Len(loader.log) + 1
        row == StatsLine(t, <<Word("f")>>, <<Word("v")>>, CodeAt(t))
    IN  {OtherLine} \cup
        {WithValues(row, f, <<Word("u")>>, v) : f \in FileTexts, v \in VolumeTexts}

LeakFlags == [single : {FALSE}, write : {TRUE}, delete_state : {FALSE},
              file_attr : BOOLEAN, name_attr : BOOLEAN, volume_attr : BOOLEAN]

LeakNext ==
    \/ \E row \in LeakLines : LogWrite(row)
    \/ \E options \in LeakFlags : LoaderRun(options, 0)

LeakSpec == Init /\ [][LeakNext]_vars

-----------------------------------------------------------------------------
(* The stat aggregator on one year of one series: two rollup bins under    *)
(* one row key, the base-rate bins arriving in any order.                   *)

RollupTs == {i * MsPerSec : i \in 0..(SecPerYear - 1)}
RollupVals == {0, 1, 2}
RollupBins == [path : {PathB}, freq : BaseFreqs, ts : RollupTs, val : RollupVals]

RollupNext ==
    \/ \E d \in RollupBins, f \in AggFreqs : UpdateStatAggregation(d, f)
    \/ Flush
    \/ Restart

RollupSpec == Init /\ [][RollupNext]_vars

-----------------------------------------------------------------------------
(* _get_row_keys on its own: ranges over the first years of the calendar,   *)
(* the ends on the first and last millisecond of a year and in between      *)

KeyTs == {(y * SecPerYear) * MsPerSec + off :
             y \in 0..MaxTsSteps, off \in {0, 1500, SecPerYear * MsPerSec - 1}}

GetRowKeys(path, freq, ts_min, ts_max) ==
    /\ last' = [op |-> "_get_row_keys",
                args |-> [path |-> path, freq |-> freq, ts_min |-> ts_min, ts_max |-> ts_max],
                ret |-> get_row_keys(path, freq, ts_min, ts_max)]
    /\ UNCHANGED <<cf_raw, cf_rate, cf_agg, cf_stat, raw_data, rates, aggs, stat_agg,
                   metadata_cache, aggregation_cache, codec, loader, hist>>

KeysNext ==
    \E path \in Paths, freq \in BaseFreqs \cup AggFreqs, ts_min \in KeyTs, ts_max \in KeyTs :
        GetRowKeys(path, freq, ts_min, ts_max)

KeysSpec == Init /\ [][KeysNext]_vars

-----------------------------------------------------------------------------
(* RawRateData.slot on its own: timestamps on and between whole seconds,    *)
(* frequencies that are and are not a whole number of seconds               *)

SlotTs == {i * 250 : i \in 0..(4 * SecPerYear)}
SlotFreqs == {300, 500, 1000, 1500, 2000}
SlotSamples == [path : Paths, freq : SlotFreqs, ts : SlotTs, val : {0}]

Slot(d) ==
    /\ last' = [op |-> "slot", args |-> d, ret |-> slot(d)]
    /\ UNCHANGED <<cf_raw, cf_rate, cf_agg, cf_stat, raw_data, rates, aggs, stat_agg,
                   metadata_cache, aggregation_cache, codec, loader, hist>>

SlotNext == \E d \in SlotSamples : Slot(d)

SlotSpec == Init /\ [][SlotNext]_vars

-----------------------------------------------------------------------------
(* The sample handler on samples of whole seconds: the second before the    *)
(* first year boundary and the seconds after it                             *)

RecordTs == {(SecPerYear - 1 + i) * MsPerSec : i \in 0..MaxTsSteps}
RecordSamples == [path : {PathB}, freq : BaseFreqs, ts : RecordTs, val : Vals]

RecordNext ==
    \/ \E d \in RecordSamples : PersistSample(d)
    \/ Flush
    \/ Restart

RecordSpec == Init /\ [][RecordNext]_vars

-----------------------------------------------------------------------------
(* get_metadata at the far end of the look-back window: the first touch     *)
(* comes a look-back after the first second of the second year, on that     *)
(* second, half a second and a second later                                 *)

SeekTs == {SecPerYear * MsPerSec + SEEK_BACK_THRESHOLD + i * 500 : i \in 0..2}

SeekNext ==
    \/ \E d \in MetaSamples : SetRawData(d)
    \/ Flush
    \/ \E d \in [path : {PathB}, freq : BaseFreqs, ts : SeekTs, val : Vals] : GetMetadata(d)

SeekSpec == Init /\ [][SeekNext]_vars

-----------------------------------------------------------------------------
(* A query with no limit in two steps, count and then range slice, while    *)
(* another worker sends its batch to the same row.  A row of the model's    *)
(* calendar holds SecPerYear columns, so the 5 that the code adds to the    *)
(* count is scaled to CountSlack: as in the code, a batch can hold more     *)
(* columns than that.                                                       *)

CountSlack == 1

\* the count step of query_raw_data: multiget_count over the rows, plus the
\* slack
query_count(cf, path, freq, ts_min, ts_max) ==
    multiget_count(cf, get_row_keys(path, freq, ts_min, ts_max), ts_min, ts_max) + CountSlack

\* the range-slice step of query_raw_data with the column count cols
query_slice(cf, path, freq, ts_min, ts_max, cols) ==
    RawResults(cf, multiget(cf, get_row_keys(path, freq, ts_min, ts_max),
                            ts_min, ts_max, cols, FALSE))

\* the columns of the series stored in [ts_min, ts_max]
StoredIn(cf, path, freq, ts_min, ts_max) ==
    {x \in DOMAIN cf : /\ \E i \in DOMAIN get_row_keys(path, freq, ts_min, ts_max) :
                             x[1] = get_row_keys(path, freq, ts_min, ts_max)[i]
                       /\ ts_min <= x[2] /\ x[2] <= ts_max}

RaceTs == {i * MsPerSec : i \in 0..(SecPerYear - 1)}
RaceSamples == [path : {PathB}, freq : BaseFreqs, ts : RaceTs, val : {0}]

Counting == last.op = "query_raw_data:count"

QueryCount(path, freq, ts_min, ts_max) ==
    /\ ~Queried /\ ~Counting
    /\ raw_data = <<>>
    /\ last' = [op |-> "query_raw_data:count",
                args |-> [path |-> path, freq |-> freq, ts_min |-> ts_min,
                          ts_max |-> ts_max, column_count |-> None],
                cols |-> query_count(cf_raw, path, freq, ts_min, ts_max),
                before |-> StoredIn(cf_raw, path, freq, ts_min, ts_max),
                added |-> 0]
    /\ UNCHANGED <<stores, batches, caches, codec, loader, hist>>

QuerySlice ==
    /\ Counting
    /\ last' = [op |-> "query_raw_data", args |-> last.args,
                ret |-> query_slice(cf_raw, last.args.path, last.args.freq,
                                    last.args.ts_min, last.args.ts_max, last.cols),
                exc |-> "none", before |-> last.before, added |-> last.added]
    /\ UNCHANGED <<stores, batches, caches, codec, loader, hist>>

\* the batch of another worker reaches the store between the two steps: up
\* to queue_size raw writes, here of samples with val 1
OtherWorkerSend(batch) ==
    /\ Counting
    /\ last.added = 0
    /\ cf_raw' = SendPlain(cf_raw, batch)
    /\ last' = [last EXCEPT !.added =
                   Cardinality(StoredIn(cf_raw', last.args.path, last.args.freq,
                                        last.args.ts_min, last.args.ts_max) \ last.before)]
    /\ UNCHANGED <<cf_rate, cf_agg, cf_stat, batches, caches, codec, loader, hist>>

OtherSamples == [path : {PathB}, freq : BaseFreqs, ts : RaceTs, val : {1}]

OtherBatches ==
    {<<set_raw_data_mutation(d)>> : d \in OtherSamples}
       \cup {<<set_raw_data_mutation(de[1]), set_raw_data_mutation(de[2])>> :
                de \in {x \in OtherSamples \X OtherSamples : x[1].ts < x[2].ts}}

RaceNext ==
    \/ \E d \in RaceSamples : SetRawData(d) /\ ~Counting
    \/ Flush /\ ~Counting
    \/ \E t1 \in RaceTs, t2 \in RaceTs : t1 <= t2 /\ QueryCount(PathB, 1000, t1, t2)
    \/ \E b \in OtherBatches : OtherWorkerSend(b)
    \/ QuerySlice

RaceSpec == Init /\ [][RaceNext]_vars

-----------------------------------------------------------------------------
(* The loader run from cron: every run writes the state file and keeps it, *)
(* and loads all the records it finds.  earlier holds the posts of the     *)
(* runs before the last one.                                               *)

CronFlags == [single |-> FALSE, write |-> TRUE, delete_state |-> FALSE,
              file_attr |-> FALSE, name_attr |-> FALSE, volume_attr |-> FALSE]

CronRun(fail) ==
    LET r == main(loader.log, loader.state, CronFlags, fail)
        n == IF loader.run = <<>> THEN 0 ELSE loader.run.n
        first == loader.run = <<>> \/ "earlier" \notin DOMAIN loader.run
        earlier == IF first THEN <<>> ELSE loader.run.earlier \o loader.run.posts
        refused == IF first THEN FALSE ELSE loader.run.refused
    IN  /\ n < MaxRuns
        /\ loader' = [loader EXCEPT
              !.state = r.state,
              !.run = [n |-> n + 1, log |-> loader.log, before |-> loader.state,
                       options |-> CronFlags, fail |-> fail,
                       posts |-> r.posts, exc |-> r.exc,
                       earlier |-> earlier,
                       refused |-> refused \/ Len(r.posts) = 2 * (fail - 1)]]
        /\ UNCHANGED <<stores, batches, caches, codec, last, hist>>

CronNext ==
    \/ \E row \in LogLines : LogWrite(row)
    \/ \E fail \in 0..MaxLog : CronRun(fail)

CronSpec == Init /\ [][CronNext]_vars

-----------------------------------------------------------------------------
(* The persister on samples of the last second of one year and the first  *)
(* second of the next                                                      *)

ShardTs == {(SecPerYear - 1) * MsPerSec, SecPerYear * MsPerSec}
ShardVals == {0, 1}
ShardSamples == [path : {PathB}, freq : BaseFreqs, ts : ShardTs, val : ShardVals]

ShardNext ==
    \/ \E d \in ShardSamples : PersistSample(d)
    \/ Flush
    \/ Restart

ShardSpec == Init /\ [][ShardNext]_vars

-----------------------------------------------------------------------------
(* The roll-up on the first three seconds of a year: a bin of two samples  *)
(* and the bin after it                                                    *)

ExtremeTs == {0, MsPerSec, 2 * MsPerSec}
ExtremeBins == [path : {PathB}, freq : BaseFreqs, ts : ExtremeTs, val : RollupVals]

ExtremeNext ==
    \/ \E d \in ExtremeBins, f \in AggFreqs : UpdateStatAggregation(d, f)
    \/ Flush
    \/ Restart

ExtremeSpec == Init /\ [][ExtremeNext]_vars

-----------------------------------------------------------------------------
(* The roll-up on three seconds around the first year boundary, three      *)
(* values a bin                                                            *)

EdgeTs == {(SecPerYear - 2 + i) * MsPerSec : i \in 0..2}
EdgeBins == [path : {PathB}, freq : BaseFreqs, ts : EdgeTs, val : RollupVals]

EdgeNext ==
    \/ \E d \in EdgeBins, f \in AggFreqs : UpdateStatAggregation(d, f)
    \/ Flush
    \/ Restart

EdgeSpec == Init /\ [][EdgeNext]_vars

-----------------------------------------------------------------------------
(* The whole program: every operation above *)

Next ==
    \/ RawNext
    \/ MetaNext
    \/ StatNext
    \/ QueryNext
    \/ PersistNext
    \/ FailNext
    \/ AvgNext
    \/ DeriveNext
    \/ WorkerNext
    \/ RollupNext
    \/ KeysNext
    \/ SlotNext
    \/ LoaderNext
    \/ LeakNext
    \/ RecordNext
    \/ SeekNext
    \/ RaceNext
    \/ CronNext
    \/ ShardNext
    \/ ExtremeNext
    \/ EdgeNext

Spec == Init /\ [][Next]_vars

-----------------------------------------------------------------------------
(* Claims about the stat aggregations *)

MinOf(S) == CHOOSE x \in S : \A y \in S : x <= y
MaxOf(S) == CHOOSE x \in S : \A y \in S : x >= y

StatFields == {"min", "max", "min_ts", "max_ts"}

\* C1: when the bins of every series came in non-decreasing order, after a
\* flush every stat bin holds the smallest and the greatest value contributed
\* to it, with the timestamps of samples that contributed them.
C1_StatMinMax ==
    (hist.mono /\ stat_agg = <<>>)
    => \A bin \in DOMAIN hist.contrib :
          /\ bin \in DOMAIN cf_stat
          /\ DOMAIN cf_stat[bin] = StatFields
          /\ LET b == cf_stat[bin]
                 cs == hist.contrib[bin]
             IN  /\ b.min = MinOf({c.val : c \in cs})
                 /\ b.max = MaxOf({c.val : c \in cs})
                 /\ \E c \in cs : c.val = b.min /\ c.ts = b.min_ts
                 /\ \E c \in cs : c.val = b.max /\ c.ts = b.max_ts

\* a flushed bin of three samples whose minimum and maximum came after the
\* first sample
C1_Witness ==
    /\ hist.mono /\ stat_agg = <<>>
    /\ \E bin \in DOMAIN hist.contrib :
          /\ Cardinality(hist.contrib[bin]) = 3
          /\ bin \in DOMAIN cf_stat
          /\ cf_stat[bin].min < cf_stat[bin].max
          /\ cf_stat[bin].min_ts # cf_stat[bin].max_ts

\* min <= max and both timestamps in [t, t + freq), for a bin b at t
BinOk(b, t, freq) ==
    /\ StatFields \subseteq DOMAIN b
    /\ b.min <= b.max
    /\ t <= b.min_ts /\ b.min_ts < t + freq
    /\ t <= b.max_ts /\ b.max_ts < t + freq

\* C2: every stat bin, in the aggregation cache and in the store, has
\* min <= max and min_ts, max_ts within [slot, slot + F).
C2_StatBinsOk ==
    \A p \in Paths, f \in AggFreqs, y \in Years :
        LET k == get_rowkey(p, f, y)
        IN  /\ k \in DOMAIN aggregation_cache
               => \A t \in DOMAIN aggregation_cache[k] :
                     BinOk(aggregation_cache[k][t], t, f)
            /\ \A x \in DOMAIN cf_stat : x[1] = k => BinOk(cf_stat[x], x[2], f)

\* a bin with distinct extremes from distinct samples, cached and stored
C2_Witness ==
    \E x \in DOMAIN cf_stat :
        /\ cf_stat[x].min < cf_stat[x].max
        /\ cf_stat[x].min_ts # cf_stat[x].max_ts
        /\ x[1] \in DOMAIN aggregation_cache
        /\ x[2] \in DOMAIN aggregation_cache[x[1]]
        /\ aggregation_cache[x[1]][x[2]] = cf_stat[x]

\* the bins the aggregation cache holds for a series (path, rollup frequency)
CachedBins(p, f) ==
    {<<k, t>> \in UNION {{k2} \X DOMAIN aggregation_cache[k2] :
                           k2 \in DOMAIN aggregation_cache} :
        \E y \in Years : k = get_rowkey(p, f, y)}

\* C9: the aggregation cache holds at most one bin per series.
C9_OneBinPerSeries ==
    \A p \in Paths, f \in AggFreqs : Cardinality(CachedBins(p, f)) <= 1

-----------------------------------------------------------------------------
(* Claims about the raw data *)

\* the stored columns of a series, whatever row they are in
SeriesCols(cf, path, freq) ==
    {x \in DOMAIN cf : \E y \in Years : x[1] = get_rowkey(path, freq, y)}

RetTs(ret) == {ret[i].ts : i \in 1..Len(ret)}

\* C4: a sample written through set_raw_data and flushed is returned, alone
\* and with its own ts and val, by query_raw_data(path, freq, ts, ts).
C4_RawRoundTrip ==
    (/\ last.op = "query_raw_data"
     /\ raw_data = <<>>
     /\ last.args.column_count = None
     /\ last.args.ts_min = last.args.ts_max)
    => \A s \in hist.written :
          (/\ s.path = last.args.path
           /\ s.freq = last.args.freq
           /\ s.ts = last.args.ts_min
           /\ \A o \in hist.written :
                 (o.path = s.path /\ o.freq = s.freq /\ o.ts = s.ts) => o = s)
          => last.ret = <<[ts |-> s.ts, val |-> s.val]>>

-----------------------------------------------------------------------------
(* The row-key codec on its own: a key is built from a path, a frequency   *)
(* and a year with get_rowkey and split again with _split_rowkey.          *)

Chars == {"a", KEY_DELIMITER, ESCAPE}

RECURSIVE StringsUpTo(_)
\* the non-empty strings over Chars of at most n characters
StringsUpTo(n) ==
    IF n = 0 THEN {}
    ELSE LET shorter == StringsUpTo(n - 1)
         IN  {<<c>> : c \in Chars} \cup shorter
             \cup {Append(s, c) : s \in shorter, c \in Chars}

Steps == StringsUpTo(MaxStepLen)
CodecPaths == {<<s>> : s \in Steps} \cup {<<s, t>> : s \in Steps, t \in Steps}

CodecInit ==
    /\ InitDb
    /\ codec \in {[pc |-> "in", path |-> p, freq |-> f, year |-> y,
                   key |-> <<>>, out |-> <<>>] :
                     p \in CodecPaths, f \in BaseFreqs \cup AggFreqs,
                     y \in {EpochYear, EpochYear + 1}}
    /\ loader = NoLoader

CodecEncode ==
    /\ codec.pc = "in"
    /\ codec' = [codec EXCEPT !.pc = "key",
                              !.key = get_rowkey(codec.path, codec.freq, codec.year)]
    /\ UNCHANGED <<stores, batches, caches, loader, last, hist>>

CodecDecode ==
    /\ codec.pc = "key"
    /\ codec' = [codec EXCEPT !.pc = "out", !.out = split_rowkey(codec.key)]
    /\ UNCHANGED <<stores, batches, caches, loader, last, hist>>

CodecNext == CodecEncode \/ CodecDecode

CodecSpec == CodecInit /\ [][CodecNext]_vars

\* C6: splitting the key built from path, freq and year gives back the path
\* steps followed by freq and year.
C6_CodecRoundTrip ==
    codec.pc = "out" => codec.out = codec.path \o <<str(codec.freq), str(codec.year)>>

-----------------------------------------------------------------------------
(* Claims about the metadata cache *)

\* the columns of a series within the look-back window of a sample d
WindowCols(cf, d) ==
    {x \in SeriesCols(cf, d.path, d.freq) :
        /\ x[2] <= ts_to_jstime(d.ts) - 1
        /\ x[2] >= ts_to_jstime(d.ts) - 1 - SEEK_BACK_THRESHOLD}

\* C7: the first get_metadata of a series installs the most recent raw
\* column of the look-back window, whatever year rows hold columns, and the
\* incoming sample when the window holds none.
C7_MetadataSeed ==
    (last.op = "get_metadata" /\ last.ret.loaded)
    => LET d == last.args
           w == WindowCols(cf_raw, d)
           m == last.ret.meta
       IN  /\ metadata_cache[get_meta_key(d)] = m
           /\ IF w # {}
              THEN \E x \in w : /\ \A y \in w : y[2] <= x[2]
                                /\ m.last_update = x[2]
                                /\ m.last_val = json_loads(cf_raw[x])
              ELSE m.last_update = d.ts /\ m.last_val = d.val

\* a first touch whose window holds columns in two year rows
C7_Witness ==
    /\ last.op = "get_metadata" /\ last.ret.loaded
    /\ \E x, y \in WindowCols(cf_raw, last.args) :
          /\ x[1] # y[1]
          /\ json_loads(cf_raw[x]) # json_loads(cf_raw[y])
          /\ last.ret.meta.last_update = x[2]

\* a first touch whose window holds no column although the store holds one
C7_WitnessNew ==
    /\ last.op = "get_metadata" /\ last.ret.loaded
    /\ WindowCols(cf_raw, last.args) = {}
    /\ SeriesCols(cf_raw, last.args.path, last.args.freq) # {}

-----------------------------------------------------------------------------
(* Claims about the queries *)

\* C10: the result list of the three range queries is in ascending order of
\* timestamp, over one or several year rows.
C10_Ascending ==
    Queried => \A i, j \in 1..Len(last.ret) : i < j => last.ret[i].ts < last.ret[j].ts

\* a result of each of the three queries with records of two year rows
TwoYears(op) ==
    /\ last.op = op
    /\ Len(last.ret) = 2
    /\ YearOf(last.ret[1].ts) # YearOf(last.ret[2].ts)

C10_Witness == TwoYears("query_baserate_timerange")
C10_WitnessRaw == TwoYears("query_raw_data")
C10_WitnessAgg == TwoYears("query_aggregation_timerange")


-----------------------------------------------------------------------------
(* Claims about the sample handler *)

\* C8: the raw insert and the base-rate increment of one sample are sent to
\* the store together: no base-rate increment waits in its batch once the
\* raw insert of the same handler has left the batch of raw_data.
C8_RawAndRateTogether ==
    \A i \in 1..Len(rates) : \E j \in 1..Len(raw_data) : raw_data[j].src = rates[i].src

InOrder(stream) ==
    \A i, j \in 1..Len(stream) : i < j => stream[i].ts < stream[j].ts

\* C3: a stream that arrives in order and is handled with a restart (the
\* batches flushed, a fresh process with empty caches) leaves the four
\* tables that one process handling the whole stream leaves.
C3_RestartIdempotent ==
    (hist.restarts = 1 /\ InOrder(hist.stream))
        => Tables(Db) = Tables(Run(EmptyDb, hist.stream, 1))

-----------------------------------------------------------------------------
(* Claims about failures and queries *)

\* C11: a write operation whose insert exhausts the retry budget of the
\* store returns normally: no exception leaves set_raw_data, update_rate_bin,
\* update_rate_aggregation or update_stat_aggregation.
C11_WriteFailureSwallowed ==
    (last.op \in WriteOps /\ "exc" \in DOMAIN last) => last.exc = "none"


\* the same quotient: n1/d1 = n2/d2
SameQuot(a, b) == a.num * b.den = b.num * a.den

\* C12: a base-rate or aggregation query with a consolidation outside the
\* allowed set does not fail and returns what the same query returns with
\* consolidation 'average'.
C12_InvalidConsolidationIsAverage ==
    /\ (last.op = "query_baserate_timerange" /\ last.args.cf \notin {"average", "delta"})
          => /\ last.exc = "none"
             /\ last.ret = query_baserate_timerange(cf_rate, last.args.path, last.args.freq,
                               last.args.ts_min, last.args.ts_max, "average",
                               last.args.column_count).rows
    /\ (last.op = "query_aggregation_timerange" /\ last.args.cf \notin AGG_TYPES)
          => /\ last.exc = "none"
             /\ last.ret = query_aggregation_timerange(cf_agg, cf_stat, last.args.path,
                               last.args.freq, last.args.ts_min, last.args.ts_max,
                               "average", last.args.column_count)

\* the stored base-rate bin of a row of a result
RateBinOf(args, row) ==
    cf_rate[<<get_rowkey(args.path, args.freq, YearOf(row.ts)), row.ts>>]

\* C13: for every positive frequency the base-rate query does not fail;
\* with 'average' each row is val / (freq/1000) of its stored bin, with
\* 'delta' it is val unchanged.
C13_BaserateAverage ==
    (last.op = "query_baserate_timerange" /\ last.args.cf \in {"average", "delta"})
       => /\ last.exc = "none"
          /\ \A i \in 1..Len(last.ret) :
                LET row == last.ret[i]
                    val == RateBinOf(last.args, row).val
                IN  IF last.args.cf = "average"
                    THEN SameQuot(row.val, Quot(val * 1000, last.args.freq))
                    ELSE row.val = Quot(val, 1)


\* C14: once the batch of rate_aggregations is sent, a rollup bin that n
\* calls with values v1..vn of base frequency b went into holds val =
\* v1+...+vn and n under the sub-column named after b, and the 'average'
\* query returns (v1+...+vn) / (n * b/1000) for it.
C14_RollupAverage ==
    aggs = <<>> =>
      /\ \A bin \in DOMAIN hist.rollup :
            LET h == hist.rollup[bin]
            IN  /\ bin \in DOMAIN cf_agg
                /\ cf_agg[bin][VAL] = h.sum
                /\ cf_agg[bin][str(h.base_freq)] = h.n
      /\ (last.op = "query_aggregation_timerange" /\ last.args.cf = "average")
            => \A i \in 1..Len(last.ret) :
                  LET row == last.ret[i]
                      h == hist.rollup[<<get_rowkey(last.args.path, last.args.freq,
                                                    YearOf(row.ts)), row.ts>>]
                  IN  SameQuot(row.val, Quot(h.sum * 1000, h.n * h.base_freq))

C14_Witness ==
    /\ aggs = <<>>
    /\ last.op = "query_aggregation_timerange" /\ last.args.cf = "average"
    /\ \E i \in 1..Len(last.ret) :
          LET h == hist.rollup[<<get_rowkey(last.args.path, last.args.freq,
                                            YearOf(last.ret[i].ts)), last.ret[i].ts>>]
          IN  h.n = 2 /\ h.sum = 3 /\ h.base_freq = 1500

C16_BatchesBounded ==
    /\ \A i \in 1..4 : Len(batches[i]) < queue_size
    /\ last.op = "flush" =>
          /\ batches = <<<<>>, <<>>, <<>>, <<>>>>
          /\ \A d \in hist.written : <<get_key(d), ts_to_jstime(d.ts)>> \in DOMAIN cf_raw
          /\ hist.rated \subseteq DOMAIN cf_rate
          /\ \A bin \in DOMAIN hist.rollup :
                bin \in DOMAIN cf_agg /\ cf_agg[bin][VAL] = hist.rollup[bin].sum
          /\ DOMAIN hist.contrib \subseteq DOMAIN cf_stat

C16_Witness ==
    /\ last.op = "flush"
    /\ hist.written # {} /\ hist.rated # {}
    /\ cf_raw # <<>> /\ cf_rate # <<>>


-----------------------------------------------------------------------------
(* Claims about the rate deriver *)

\* the metadata the handler of d loads, after its raw insert
LoadedMeta(d) ==
    get_metadata(metadata_cache, set_raw_data(Db, d, 0).cf_raw, d).meta

\* the step is the handling of one sample
Handled == last'.op = "persist" /\ hist'.n = hist.n + 1

RawPersisted(d) ==
    LET m == set_raw_data_mutation(d)
    IN  \/ \E i \in 1..Len(raw_data') :
              /\ raw_data'[i].key = m.key
              /\ raw_data'[i].col = m.col
              /\ raw_data'[i].val = m.val
        \/ /\ <<m.key, m.col>> \in DOMAIN cf_raw'
           /\ cf_raw'[<<m.key, m.col>>] = m.val

NoRateWrites == UNCHANGED <<cf_rate, rates>>

NoAggWrites == UNCHANGED <<cf_agg, aggs, cf_stat, stat_agg>>

\* C17: a sample whose timestamp is not later than the last_update of the
\* metadata of its series is dropped: its raw value is persisted, no base
\* rate and no aggregation is written, and the metadata record keeps its
\* last_update and last_val.
C17_StaleSampleDropped ==
    [][(Handled /\ last'.args.ts <= LoadedMeta(last'.args).last_update) =>
          LET d == last'.args
              mk == get_meta_key(d)
          IN  /\ RawPersisted(d)
              /\ NoRateWrites
              /\ NoAggWrites
              /\ mk \in DOMAIN metadata_cache'
              /\ metadata_cache'[mk].last_update = LoadedMeta(d).last_update
              /\ metadata_cache'[mk].last_val = LoadedMeta(d).last_val
              /\ mk \in DOMAIN metadata_cache => metadata_cache'[mk] = metadata_cache[mk]]_vars

\* a sample dropped behind a later one of another value, already in the cache
C17_Witness ==
    /\ last.op = "persist" /\ last.ret = "drop"
    /\ hist.n >= 2
    /\ hist.stream[hist.n - 1].ts > last.args.ts
    /\ hist.stream[hist.n - 1].val # last.args.val
    /\ metadata_cache[get_meta_key(last.args)].last_update = hist.stream[hist.n - 1].ts


\* base_rates with the increments of the batch applied
RatesOf(cf, q) == SendCounter(cf, q)

CounterOf(cf, bin, name) == IF bin \in DOMAIN cf THEN cf[bin][name] ELSE 0

\* the base-rate bin of the slot of a sample
SlotBin(d) ==
    LET rb == BaseRateBin(d.path, d.freq, slot(d), 0, 0)
    IN  <<get_key(rb), ts_to_jstime(rb.ts)>>

\* C18: a sample later than last_update whose value is lower than last_val
\* gives an invalid bin: the val of the bin of its slot is not incremented,
\* its is_valid is incremented by the sentinel, no other base-rate bin
\* changes, and nothing is written to rate_aggregations or stat_aggregations.
C18_ResetGivesInvalidBin ==
    [][(/\ Handled
        /\ last'.args.val < LoadedMeta(last'.args).last_val
        /\ ts_to_jstime(last'.args.ts) > ts_to_jstime(LoadedMeta(last'.args).last_update)) =>
          LET bin == SlotBin(last'.args)
              old == RatesOf(cf_rate, rates)
              new == RatesOf(cf_rate', rates')
          IN  /\ bin \in DOMAIN new
              /\ CounterOf(new, bin, "val") = CounterOf(old, bin, "val")
              /\ CounterOf(new, bin, "is_valid") = CounterOf(old, bin, "is_valid") + ResetSentinel
              /\ \A b \in (DOMAIN new) \ {bin} : b \in DOMAIN old /\ new[b] = old[b]
              /\ NoAggWrites]_vars

C18_Witness ==
    /\ last.op = "persist" /\ last.ret = "invalid"
    /\ hist.n >= 2
    /\ hist.stream[hist.n - 1].val > last.args.val
    /\ hist.stream[hist.n - 1].ts < last.args.ts
    /\ CounterOf(RatesOf(cf_rate, rates), SlotBin(last.args), "is_valid") >= ResetSentinel


RECURSIVE SumVal(_, _)
SumVal(cf, S) ==
    IF S = {} THEN 0
    ELSE LET b == CHOOSE x \in S : TRUE IN cf[b].val + SumVal(cf, S \ {b})

\* a stream of one series in order of time, the counter strictly growing
Growing(stream) ==
    \A i, j \in 1..Len(stream) :
        i < j => /\ stream[i].ts < stream[j].ts
                 /\ stream[i].val < stream[j].val
                 /\ stream[i].freq = stream[j].freq
                 /\ stream[i].path = stream[j].path

\* the base-rate bins of the columns in [t0, t1)
BinsIn(cf, t0, t1) == {b \in DOMAIN cf : t0 <= b[2] /\ b[2] < t1}

C20_ValidIffValidDelta ==
    LET cf == RatesOf(cf_rate, rates)
    IN  \A bin \in (DOMAIN cf) \cup hist.valid :
           CounterOf(cf, bin, "is_valid") > 0 <=> bin \in hist.valid

\* the half of C20 that holds: a bin a valid delta was added to has is_valid > 0
C20_ValidDeltaIsMarked ==
    \A bin \in hist.valid : CounterOf(RatesOf(cf_rate, rates), bin, "is_valid") > 0


-----------------------------------------------------------------------------
(* Claims about concurrent workers and limits *)

WorkersDone == \A w \in Workers : hist.pc[w] = Len(WorkerTs) * Len(WorkerSteps)

\* C21: when two workers on series of their own have made all their calls
\* in some interleaving, the metadata cache, the aggregation cache and the
\* four tables (once the batches are flushed) are those that the workers
\* leave when one runs after the other, in either order.
C21_InterleavingIsSerial ==
    WorkersDone =>
       \A w \in Workers :
          /\ metadata_cache = Serial(w).metadata_cache
          /\ aggregation_cache = Serial(w).aggregation_cache
          /\ Tables(Db) = Tables(Serial(w))

\* both workers are done, the last call is worker 1's, and the batches
\* were sent in between
C21_Witness ==
    /\ WorkersDone
    /\ last.ret = 1
    /\ cf_rate # <<>> /\ cf_stat # <<>>
    /\ hist.prog[1][2].val # hist.prog[2][2].val


QueryOps == {"query_raw_data", "query_baserate_timerange", "query_aggregation_timerange"}

\* C22: a query given a limit returns at most that many records.
C22_LimitBoundsResult ==
    (last.op \in QueryOps /\ last.exc = "none" /\ last.args.column_count # None)
        => Len(last.ret) <= last.args.column_count[1]

\* the part of C22 that holds: within one year-shard
C22_LimitBoundsOneShard ==
    (/\ last.op \in QueryOps /\ last.exc = "none" /\ last.args.column_count # None
     /\ YearOf(last.args.ts_min) = YearOf(last.args.ts_max))
        => Len(last.ret) <= last.args.column_count[1]


-----------------------------------------------------------------------------
(* Claims about the GridFTP loader *)

\* the records of the lines of transfer stats of a log, in file order
RECURSIVE RecordsOf(_)
RecordsOf(data) ==
    IF data = <<>> THEN <<>>
    ELSE (IF IsStats(Head(data))
          THEN <<LogEntryDataObject(Tokens(Head(data).fields), <<>>).data>>
          ELSE <<>>) \o RecordsOf(Tail(data))

\* the posts of the records after the j-th, in order
RECURSIVE PostsAfter(_, _, _)
PostsAfter(recs, j, options) ==
    IF j >= Len(recs) THEN <<>>
    ELSE <<MetadataPost(recs[j + 1], options), EventTypePost(recs[j + 1])>>
         \o PostsAfter(recs, j + 1, options)

\* the last run found the saved record at place j of the log, and no post
\* of it was refused
Resumed(j) ==
    /\ loader.run # <<>>
    /\ loader.run.before # None
    /\ loader.run.fail = 0
    /\ j \in 1..Len(RecordsOf(loader.run.log))
    /\ RecordsOf(loader.run.log)[j] = loader.run.before[1]

ResumePostsRest(j) ==
    LET recs == RecordsOf(loader.run.log)
    IN  /\ loader.run.exc = "none"
        /\ loader.run.posts = PostsAfter(recs, j, loader.run.options)
        /\ loader.run.options.write => loader.state = Some(recs[Len(recs)])

RECURSIVE PostsBetween(_, _, _, _)
PostsBetween(recs, j, k, options) ==
    IF j >= k THEN <<>>
    ELSE <<MetadataPost(recs[j + 1], options), EventTypePost(recs[j + 1])>>
         \o PostsBetween(recs, j + 1, k, options)

\* the place in the log of the record the last run resumed from, 0 when it
\* started from the first line
ResumedFrom ==
    LET recs == RecordsOf(loader.run.log)
    IN  IF loader.run.before # None
           /\ \E j \in 1..Len(recs) : recs[j] = loader.run.before[1]
        THEN CHOOSE j \in 1..Len(recs) : recs[j] = loader.run.before[1]
        ELSE 0

\* the backend refused a MetadataPost of the last run
PostRefused ==
    /\ loader.run # <<>>
    /\ loader.run.fail >= 1
    /\ loader.run.fail <= Len(RecordsOf(loader.run.log)) - ResumedFrom
    /\ loader.run.options.single => loader.run.fail = 1

RunStoppedAtRefusal ==
    /\ loader.run.posts = PostsBetween(RecordsOf(loader.run.log), ResumedFrom,
                                       ResumedFrom + loader.run.fail - 1,
                                       loader.run.options)
    /\ loader.state = loader.run.before

\* C24: when a MetadataPost is refused, the run has posted the records
\* before that one only, and the state file is as it was before the run.
C24_FailureKeepsState ==
    PostRefused => RunStoppedAtRefusal

\* C24 as it holds: for a run without --delete_state.
C24_FailureKeepsStateUnlessDeleted ==
    (PostRefused /\ ~loader.run.options.delete_state) => RunStoppedAtRefusal

\* a second run that resumes after the first record, posts the second and
\* is refused the third
C24_Witness ==
    /\ PostRefused
    /\ ~loader.run.options.delete_state
    /\ loader.run.options.write
    /\ loader.run.n = 2
    /\ ResumedFrom = 1
    /\ loader.run.fail = 2
    /\ Len(loader.run.posts) = 2
    /\ loader.state = loader.run.before


\* the logs that differ from data in the FILE, USER and VOLUME values of
\* their lines only, the values taken from the sets given
RECURSIVE Variants(_, _, _, _)
Variants(data, F, U, V) ==
    IF data = <<>> THEN {<<>>}
    ELSE LET heads == IF IsStats(Head(data))
                      THEN {WithValues(Head(data), f, u, v) : f \in F, u \in U, v \in V}
                      ELSE {Head(data)}
         IN  {<<h>> \o rest : h \in heads, rest \in Variants(Tail(data), F, U, V)}

SensitiveFlagsOff(options) ==
    ~options.file_attr /\ ~options.name_attr /\ ~options.volume_attr

\* the last run was a first run (no state file) with -F, -N and -V off
PlainFirstRun ==
    /\ loader.run # <<>>
    /\ loader.run.before = None
    /\ SensitiveFlagsOff(loader.run.options)

\* C25: with -F, -N and -V off, the posts of a run are those of the run
\* on any log that differs in FILE, USER and VOLUME values only.
C25_PostsIndependentOfSensitive ==
    PlainFirstRun =>
       \A other \in Variants(loader.run.log, FileTexts, UserTexts, VolumeTexts) :
          main(other, None, loader.run.options, 0).posts = loader.run.posts

OneWord(T) == {t \in T : Len(t) = 1}

\* the part of C25 that holds: between logs whose FILE, USER and VOLUME
\* values hold no blank
C25_PostsIndependentOfOneWordValues ==
    (PlainFirstRun /\ loader.run.log \in Variants(loader.run.log, OneWord(FileTexts),
                                                   OneWord(UserTexts), OneWord(VolumeTexts)))
       => \A other \in Variants(loader.run.log, OneWord(FileTexts), OneWord(UserTexts),
                                OneWord(VolumeTexts)) :
             main(other, None, loader.run.options, 0).posts = loader.run.posts


\* C26: within one process the stat table is read at most once for a row
\* key, whatever the number of calls and bins for that row key.
C26_OneReadPerRowKey ==
    \A k \in DOMAIN hist.reads : hist.reads[k] <= 1

\* two calls or more for one row key in one process, on two bins, the
\* first of them having read the store
C26_Witness ==
    /\ \E k \in DOMAIN hist.reads : hist.reads[k] = 1 /\ hist.calls[k] >= 2
    /\ last.op = "update_stat_aggregation"
    /\ get_rowkey(last.args.d.path, last.args.freq, YearOf(last.args.agg_ts)) \in DOMAIN hist.reads
    /\ \E b \in DOMAIN hist.contrib :
          /\ b[1] = get_rowkey(last.args.d.path, last.args.freq, YearOf(last.args.agg_ts))
          /\ b[2] # last.args.agg_ts


\* the bin the process knows before a call for row key k and bin t: the
\* cached one, or the stored one when the row key is not cached yet
KnownBin(k, t) ==
    IF Falsy(aggregation_cache, k)
    THEN (IF <<k, t>> \in DOMAIN cf_stat THEN Some(cf_stat[<<k, t>>]) ELSE None)
    ELSE (IF Falsy(aggregation_cache[k], t) THEN None ELSE Some(aggregation_cache[k][t]))

\* the step queues exactly the mutation m on the stat batch (which may send)
QueuesStat(m) ==
    \/ stat_agg' = Append(stat_agg, m) /\ cf_stat' = cf_stat
    \/ /\ stat_agg' = <<>>
       /\ Len(stat_agg) + 1 >= queue_size
       /\ cf_stat' = SendSuper(cf_stat, Append(stat_agg, m))

StatStep == last'.op = "update_stat_aggregation" /\ hist'.n = hist.n + 1

\* the writing cases of C27: full write for a bin not known, {max, max_ts}
\* above the known maximum, {min, min_ts} below the known minimum
StatWrites ==
    LET a == last'.args
        k == get_rowkey(a.d.path, a.freq, YearOf(a.agg_ts))
        t == ts_to_jstime(a.agg_ts)
        rawts == ts_to_jstime(a.d.ts)
        v == a.d.val
        known == KnownBin(k, t)
        m(cols) == [key |-> k, col |-> t, val |-> cols]
    IN  /\ known = None =>
            /\ last'.ret = TRUE
            /\ QueuesStat(m([min |-> v, max |-> v, min_ts |-> rawts, max_ts |-> rawts]))
        /\ (known # None /\ v > known[1].max) =>
            /\ last'.ret = TRUE
            /\ QueuesStat(m([max |-> v, max_ts |-> rawts]))
        /\ (known # None /\ v < known[1].min /\ ~(v > known[1].max)) =>
            /\ last'.ret = TRUE
            /\ QueuesStat(m([min |-> v, min_ts |-> rawts]))

\* the value is within [min, max] of the known bin
StatWithin ==
    LET a == last'.args
        known == KnownBin(get_rowkey(a.d.path, a.freq, YearOf(a.agg_ts)), ts_to_jstime(a.agg_ts))
    IN  known # None /\ known[1].min <= a.d.val /\ a.d.val <= known[1].max

\* C27 as stated: writes and True exactly in the three cases; within
\* [min, max] nothing is queued, False is returned, cache and store are
\* left unchanged.
C27_WritesExactlyOnNewExtreme ==
    [][StatStep =>
          /\ StatWrites
          /\ StatWithin =>
                /\ last'.ret = FALSE
                /\ stat_agg' = stat_agg /\ cf_stat' = cf_stat
                /\ aggregation_cache' = aggregation_cache]_vars

\* C27, amended: within [min, max] the cache is left unchanged when the row
\* key is cached; on the first call for a row key in the process the bin
\* read from the store is put in the cache.
C27_WritesExactlyOnNewExtremeOrSeeds ==
    [][StatStep =>
          /\ StatWrites
          /\ StatWithin =>
                /\ last'.ret = FALSE
                /\ stat_agg' = stat_agg /\ cf_stat' = cf_stat
                /\ LET a == last'.args
                       k == get_rowkey(a.d.path, a.freq, YearOf(a.agg_ts))
                       t == ts_to_jstime(a.agg_ts)
                   IN  aggregation_cache' =
                          IF Falsy(aggregation_cache, k)
                          THEN (k :> (t :> cf_stat[<<k, t>>])) @@ aggregation_cache
                          ELSE aggregation_cache]_vars

\* a call with a value equal to the maximum of a cached bin of two values
\* has returned False
C27_Witness ==
    /\ last.op = "update_stat_aggregation"
    /\ last.ret = FALSE
    /\ LET a == last.args
           k == get_rowkey(a.d.path, a.freq, YearOf(a.agg_ts))
           t == ts_to_jstime(a.agg_ts)
       IN  /\ ~Falsy(aggregation_cache, k)
           /\ ~Falsy(aggregation_cache[k], t)
           /\ aggregation_cache[k][t].max = a.d.val
           /\ aggregation_cache[k][t].min < a.d.val


\* the stat table once the batch is flushed, of the process and of the
\* process that was never restarted
StoredStat == SendSuper(cf_stat, stat_agg)
TwinStat == SendSuper(hist.twin.cf, hist.twin.q)

\* the rollup bins (row key, timestamp) that were open at the restart
BinsAtRestart ==
    {<<get_rowkey(s[1], s[2], YearOf(hist.twin.at[s])), ts_to_jstime(hist.twin.at[s])>> :
        s \in DOMAIN hist.twin.at}

\* C28: after a restart in the middle of a bin, the updates that follow for
\* that bin leave the stored bin as the uninterrupted run stores it.
C28_RestartKeepsRollup ==
    (hist.twin.cut /\ hist.twin.same) =>
       \A b \in BinsAtRestart :
          /\ b \in DOMAIN StoredStat <=> b \in DOMAIN TwinStat
          /\ b \in DOMAIN StoredStat => StoredStat[b] = TwinStat[b]

\* a restart in the middle of a bin, and then an update of that bin that
\* has written a new extreme
C28_Witness ==
    /\ hist.twin.cut /\ hist.twin.same /\ hist.twin.after
    /\ last.op = "update_stat_aggregation" /\ last.ret = TRUE
    /\ \E b \in BinsAtRestart :
          /\ b \in DOMAIN StoredStat
          /\ StoredStat[b].min < StoredStat[b].max
          /\ StoredStat[b].min_ts # StoredStat[b].max_ts


\* the UTC calendar year of a millisecond timestamp
UtcYear(t) == EpochYear + (t \div (SecPerYear * MsPerSec))

\* C29: for t_min <= t_max, _get_row_keys gives the row key of every year
\* from the year of t_min to the year of t_max, each once, in ascending
\* order of the year, and no other key.
C29_OneKeyPerYearAscending ==
    (last.op = "_get_row_keys" /\ last.args.ts_min <= last.args.ts_max) =>
       LET a == last.args
           years == UtcYear(a.ts_min)..UtcYear(a.ts_max)
           keys == last.ret
       IN  /\ Len(keys) = Cardinality(years)
           /\ \A y \in years :
                 Cardinality({i \in DOMAIN keys : keys[i] = get_rowkey(a.path, a.freq, y)}) = 1
           /\ \A i \in DOMAIN keys : \E y \in years : keys[i] = get_rowkey(a.path, a.freq, y)
           /\ \A i, j \in DOMAIN keys, y, z \in years :
                 (i < j /\ keys[i] = get_rowkey(a.path, a.freq, y)
                        /\ keys[j] = get_rowkey(a.path, a.freq, z)) => y < z

\* a range from the last millisecond of a year to the first of the year
\* after the next: three keys
C29_Witness ==
    /\ last.op = "_get_row_keys"
    /\ last.args.ts_min % (SecPerYear * MsPerSec) = SecPerYear * MsPerSec - 1
    /\ last.args.ts_max % (SecPerYear * MsPerSec) = 0
    /\ Len(last.ret) = 3


\* C30: the slot of a sample at millisecond t with frequency f is
\* floor(t/f)*f: a multiple of f with slot <= t < slot + f.
C30_SlotIsFloor ==
    last.op = "slot" =>
       LET t == last.args.ts
           f == last.args.freq
       IN  /\ last.ret = (t \div f) * f
           /\ last.ret <= t /\ t < last.ret + f
           /\ last.ret % f = 0

\* the part of C30 that holds: for a frequency of whole seconds
C30_SlotIsFloorWholeSeconds ==
    (last.op = "slot" /\ last.args.freq % MsPerSec = 0) =>
       LET t == last.args.ts
           f == last.args.freq
       IN  /\ last.ret = (t \div f) * f
           /\ last.ret <= t /\ t < last.ret + f
           /\ last.ret % f = 0


\* the metadata record of a cached series is that of the samples consumed
RecordFollows(mk) ==
    /\ metadata_cache[mk].last_update = hist.seen[mk].last.ts
    /\ metadata_cache[mk].last_val = hist.seen[mk].last.val
    /\ metadata_cache[mk].min_ts = hist.seen[mk].first

\* C31: after any sequence of consumed samples, also across a restart, the
\* metadata record has last_update and last_val of the last sample consumed
\* and min_ts the earliest timestamp seen for the series.
C31_RecordFollowsSamples ==
    \A mk \in DOMAIN metadata_cache : mk \in DOMAIN hist.seen /\ RecordFollows(mk)

\* the part of C31 that holds: in a process that was never restarted
C31_RecordFollowsSamplesInOneProcess ==
    hist.restarts = 0 =>
       \A mk \in DOMAIN metadata_cache : mk \in DOMAIN hist.seen /\ RecordFollows(mk)


\* the stored raw columns of the series of d that are more than the
\* look-back older than d
TooOld(cf, d) ==
    {x \in SeriesCols(cf, d.path, d.freq) : d.ts - x[2] > SEEK_BACK_THRESHOLD}

\* C32: on the first touch of a series by a sample at T, no stored raw
\* sample more than the look-back (30 days) older than T seeds the record;
\* when every stored sample is that old the record is the incoming sample.
C32_OldSampleNeverSeeds ==
    (last.op = "get_metadata" /\ last.ret.loaded) =>
       LET d == last.args
           m == last.ret.meta
       IN  /\ \A x \in TooOld(cf_raw, d) : m.last_update # x[2]
           /\ TooOld(cf_raw, d) = SeriesCols(cf_raw, d.path, d.freq) =>
                 m = Metadata(d.ts, d.val, d.ts, d.freq, d.path)

\* the part of C32 that holds: for a sample on a whole second
C32_OldSampleNeverSeedsWholeSecond ==
    (last.op = "get_metadata" /\ last.ret.loaded /\ last.args.ts % MsPerSec = 0) =>
       LET d == last.args
           m == last.ret.meta
       IN  /\ \A x \in TooOld(cf_raw, d) : m.last_update # x[2]
           /\ TooOld(cf_raw, d) = SeriesCols(cf_raw, d.path, d.freq) =>
                 m = Metadata(d.ts, d.val, d.ts, d.freq, d.path)


\* the mutations stored and those waiting in a batch, as <<row key, column>>
Written(cf, q) == DOMAIN cf \cup {<<q[i].key, q[i].col>> : i \in DOMAIN q}

AllWritten ==
    Written(cf_raw, raw_data) \cup Written(cf_rate, rates)
       \cup Written(cf_agg, aggs) \cup Written(cf_stat, stat_agg)

\* the row key ends with the delimiter and the digits of the year
YearSegmentIs(key, year) ==
    LET y == str(year)
    IN  /\ Len(key) > Len(y)
        /\ SubSeq(key, Len(key) - Len(y), Len(key)) = <<KEY_DELIMITER>> \o y

\* the ends of the ranges queried: first and last second of three years
QueryRangeTs == {(y * SecPerYear + o) * MsPerSec : y \in 0..2, o \in {0, SecPerYear - 1}}

\* C33: the year segment of the row key of every column written is the UTC
\* year of the column, and _get_row_keys selects that row for every range
\* that contains the column.
C33_ColumnInShardOfItsYear ==
    \A x \in AllWritten :
       /\ YearSegmentIs(x[1], UtcYear(x[2]))
       /\ \E p \in Paths, f \in BaseFreqs \cup AggFreqs :
             /\ x[1] = get_rowkey(p, f, UtcYear(x[2]))
             /\ \A t1, t2 \in QueryRangeTs :
                   (t1 <= x[2] /\ x[2] <= t2) =>
                      \E i \in DOMAIN get_row_keys(p, f, t1, t2) :
                         get_row_keys(p, f, t1, t2)[i] = x[1]

\* each of the four tables holds a column, and columns of two years are
\* stored
C33_Witness ==
    /\ cf_raw # <<>> /\ cf_rate # <<>> /\ cf_agg # <<>> /\ cf_stat # <<>>
    /\ \E x, y \in AllWritten : UtcYear(x[2]) # UtcYear(y[2])


\* C34: get_rowkey is injective: no other (path, freq, year), of non-empty
\* steps that may hold ':' and '\', has the row key of this one.
C34_RowKeyInjective ==
    codec.pc \in {"key", "out"} =>
       \A p \in CodecPaths, f \in BaseFreqs \cup AggFreqs, y \in {EpochYear, EpochYear + 1} :
          get_rowkey(p, f, y) = codec.key =>
             (p = codec.path /\ f = codec.freq /\ y = codec.year)

\* no step of the path holds the escape character
NoEscape(p) == \A i \in DOMAIN p : \A j \in DOMAIN p[i] : p[i][j] # ESCAPE

\* the part of C34 that holds: among paths whose steps hold no '\'
C34_RowKeyInjectiveWithoutEscape ==
    (codec.pc \in {"key", "out"} /\ NoEscape(codec.path)) =>
       \A p \in CodecPaths, f \in BaseFreqs \cup AggFreqs, y \in {EpochYear, EpochYear + 1} :
          (get_rowkey(p, f, y) = codec.key /\ NoEscape(p)) =>
             (p = codec.path /\ f = codec.freq /\ y = codec.year)


\* C35: every stored stat_aggregations bin holds min, max, min_ts and
\* max_ts (no write fails in this specification).
C35_StoredBinIsWhole ==
    \A x \in DOMAIN cf_stat : DOMAIN cf_stat[x] = StatFields

\* a stored bin that took a write of {max, max_ts} alone after its first
\* write, while a write of {min, min_ts} alone waits in the batch
C35_Witness ==
    /\ \E x \in DOMAIN cf_stat : cf_stat[x].min_ts # cf_stat[x].max_ts
    /\ \E i \in DOMAIN stat_agg : DOMAIN stat_agg[i].val = {"min", "min_ts"}


\* every bin held in aggregation_cache is stored with the same fields
CacheIsStored ==
    \A k \in DOMAIN aggregation_cache : \A t \in DOMAIN aggregation_cache[k] :
       /\ <<k, t>> \in DOMAIN cf_stat
       /\ cf_stat[<<k, t>>] = aggregation_cache[k][t]

\* C36: after update_stat_aggregation calls followed by flush() (no stat
\* write is left in the batch), the bin in aggregation_cache for a row key
\* is the bin stored for that row key and timestamp, also when a stat write
\* has raised.
C36_CacheNotAheadOfStore ==
    stat_agg = <<>> => CacheIsStored

\* the part of C36 that holds: as long as no write has raised (RollupSpec)
C36_CacheIsStoreAfterFlush ==
    (stat_agg = <<>> /\ aggregation_cache # <<>>) => CacheIsStored


\* no stored bin is removed, and none has its min raised or its max lowered
StatExtremesKept ==
    \A x \in DOMAIN cf_stat :
       /\ x \in DOMAIN cf_stat'
       /\ cf_stat'[x].min <= cf_stat[x].min
       /\ cf_stat'[x].max >= cf_stat[x].max

\* C37: over any sequence of update_stat_aggregation calls the stored min of
\* a bin never increases and its stored max never decreases, also for calls
\* that come for a bin after the series has moved on to a later bin.
C37_StoredExtremesMonotone ==
    [][StatExtremesKept]_vars

\* the part of C37 that holds: while the bins of every series come in
\* non-decreasing order
C37_StoredExtremesMonotoneInOrder ==
    [][hist'.mono => StatExtremesKept]_vars


\* the query has run its two steps
TwoStepQueryDone ==
    last.op = "query_raw_data" /\ "before" \in DOMAIN last

\* C38: a query with no limit returns every column stored in the range
\* before it began, also when another worker's batch reaches the range
\* between its count step and its range-slice step.
C38_QueryCompleteUnderFlush ==
    TwoStepQueryDone => \A x \in last.before : x[2] \in RetTs(last.ret)

\* the part of C38 that holds: when the batch adds no more columns to the
\* range than the slack of the count
C38_QueryCompleteWithinSlack ==
    (TwoStepQueryDone /\ last.added <= CountSlack) =>
       \A x \in last.before : x[2] \in RetTs(last.ret)

\* every post made since the first run
AllPosts == loader.run.earlier \o loader.run.posts

\* how many times the record o was posted to the backend: its metadata and
\* then its data point, which carries the time the transfer started
TimesPosted(o) ==
    Cardinality({i \in 1..(Len(AllPosts) - 1) :
                    /\ AllPosts[i] = MetadataPost(o, CronFlags)
                    /\ AllPosts[i + 1] = EventTypePost(o)})

\* the last run went through the whole log
RunComplete ==
    /\ loader.run.exc = "none"
    /\ Len(loader.run.posts) # 2 * (loader.run.fail - 1)

\* C39: over the runs of the loader on a log that only grows, the state
\* file kept between them, no record is posted twice, and after a run that
\* went through the log every record of it has been posted
C39_EachRecordPostedOnce ==
    loader.run # <<>> =>
        LET recs == RecordsOf(loader.run.log)
        IN  /\ \A i \in 1..Len(recs) : TimesPosted(recs[i]) <= 1
            /\ RunComplete => \A i \in 1..Len(recs) : TimesPosted(recs[i]) = 1

\* C39 where the backend has refused no post: each record is posted once
C39_EachRecordPostedOnceNoRefusal ==
    (loader.run # <<>> /\ ~loader.run.refused) =>
        LET recs == RecordsOf(loader.run.log)
        IN  \A i \in 1..Len(recs) : TimesPosted(recs[i]) = 1

\* C39 without the first part: no record is skipped, refusals or not
C39_NoRecordSkipped ==
    (loader.run # <<>> /\ RunComplete) =>
        LET recs == RecordsOf(loader.run.log)
        IN  \A i \in 1..Len(recs) : TimesPosted(recs[i]) >= 1


====
